---- MODULE Spec2Model ----
(***************************************************************************)
(* A model of rwkv.cpp (src/rwkv.cpp): the model-file codec, the type      *)
(* registry, the loader, the single-step graph, the evaluator and the      *)
(* error words.                                                            *)
(*                                                                         *)
(* Representation choices                                                  *)
(*  - An error word is the set of the error kinds or-ed into it; NONE is   *)
(*    the empty set and `|` is union (rwkv.h is not among the sources; the *)
(*    specification calls the word a bitmask of kinds).                    *)
(*  - A file is a sequence of fields, each with its length in bytes and    *)
(*    its value, together with the file's size in bytes; a position is a   *)
(*    byte offset.  The files considered are framed as the writers frame   *)
(*    them (a key field is key_length bytes long, a payload field is       *)
(*    tensor_bytes long) and may be truncated at any byte.                 *)
(*  - A float is an integer of [-FloatMax, FloatMax]; arithmetic           *)
(*    saturates.  -1e30f is the least value, -FloatMax.                    *)
(*  - A value that later steps use is bound once, with Bind, in the order  *)
(*    in which the code computes it; a loop is run by halving its count.   *)
(***************************************************************************)
EXTENDS Integers, Sequences, FiniteSets, TLC

VARIABLES
    ctxs,               \* context slot -> the rwkv_context it holds, or NULL
    global_last_error,  \* thread -> its thread_local global_last_error
    bufs,               \* context slot -> the caller's buffers for that context
    output,             \* the file at the quantizer's output path, if any
    evlog,              \* context slot -> the file it was loaded from and the
                        \* last accepted rwkv_eval on it
    last,               \* the most recent API call: its arguments and result
    budget,             \* how many more calls of each kind the run may make
    decoy,              \* the function-local static of tensor_bytes
    frames              \* thread -> where it is in a call that runs in steps

vars == <<ctxs, global_last_error, bufs, output, evlog, last, budget, decoy, frames>>

(***************************************************************************)
(* Bounds of the model.                                                    *)
(***************************************************************************)
NThreads == 2
NCtx == 1
MaxEvals == 2
MaxLoads == 2
EvalLoads == 1
MaxQuantizes == 1
MaxReads == 2
NBuf == 1
MaxLayer == 2
MaxEmbed == 2
MaxVocab == 2
FloatMax == 64

Threads == 1..NThreads
CtxIds == 1..NCtx
BufIds == 1..NBuf

Min(a, b) == IF a < b THEN a ELSE b
Max(a, b) == IF a > b THEN a ELSE b

\* Op of the values of v (w, u, z), each computed once
Bind(v, Op(_)) == CHOOSE r \in {Op(x) : x \in {v}} : TRUE
Bind2(v, w, Op(_, _)) == CHOOSE r \in {Op(x, y) : x \in {v}, y \in {w}} : TRUE
Bind3(v, w, u, Op(_, _, _)) ==
    CHOOSE r \in {Op(x, y, z) : x \in {v}, y \in {w}, z \in {u}} : TRUE
Bind4(v, w, u, z, Op(_, _, _, _)) ==
    CHOOSE r \in {Op(x, y, p, q) : x \in {v}, y \in {w}, p \in {u}, q \in {z}} : TRUE

\* A vector given element by element, as a sequence.
Vec(f) == f \o << >>

(***************************************************************************)
(* Error kinds (rwkv.h, enum rwkv_error_flags) and their combination.      *)
(***************************************************************************)
RWKV_ERROR_NONE == {}
RWKV_ERROR_ARGS == {"ARGS"}
RWKV_ERROR_FILE == {"FILE"}
RWKV_ERROR_MODEL_PARAMS == {"MODEL_PARAMS"}
RWKV_ERROR_CTX == {"CTX"}
RWKV_ERROR_GRAPH == {"GRAPH"}
RWKV_ERROR_ALLOC == {"ALLOC"}
RWKV_ERROR_FILE_OPEN == {"FILE_OPEN"}
RWKV_ERROR_FILE_STAT == {"FILE_STAT"}
RWKV_ERROR_FILE_READ == {"FILE_READ"}
RWKV_ERROR_FILE_WRITE == {"FILE_WRITE"}
RWKV_ERROR_FILE_MAGIC == {"FILE_MAGIC"}
RWKV_ERROR_FILE_VERSION == {"FILE_VERSION"}
RWKV_ERROR_DATA_TYPE == {"DATA_TYPE"}
RWKV_ERROR_UNSUPPORTED == {"UNSUPPORTED"}
RWKV_ERROR_SHAPE == {"SHAPE"}
RWKV_ERROR_DIMENSION == {"DIMENSION"}
RWKV_ERROR_KEY == {"KEY"}
RWKV_ERROR_DATA == {"DATA"}
RWKV_ERROR_PARAM_MISSING == {"PARAM_MISSING"}

\* operator| and operator|= on enum rwkv_error_flags
ErrOr(a, b) == a \cup b

(***************************************************************************)
(* File format constants (rwkv.h).                                         *)
(***************************************************************************)
RWKV_FILE_MAGIC == 1734831462
RWKV_FILE_VERSION_0 == 100
RWKV_FILE_VERSION_1 == 101
RWKV_FILE_VERSION_MIN == RWKV_FILE_VERSION_0
RWKV_FILE_VERSION_MAX == RWKV_FILE_VERSION_1
RWKV_FILE_VERSION == RWKV_FILE_VERSION_MAX

(***************************************************************************)
(* Type registry.                                                          *)
(***************************************************************************)
TYPE_F32 == 0
TYPE_F16 == 1
TYPE_Q4_0 == 2
TYPE_Q4_1 == 3
TYPE_Q4_1_O == 4
TYPE_Q4_2 == 5
TYPE_Q4_3 == 6
TYPE_Q5_0 == 7
TYPE_Q5_1 == 8
TYPE_Q8_0 == 9
TYPE_COUNT == 10
TYPE_UNKNOWN == TYPE_COUNT

GGML_TYPE_UNKNOWN == "GGML_TYPE_COUNT"

\* type_to_ggml[TYPE_COUNT + 1], indexed from 0 in the source
type_to_ggml_table ==
    << "GGML_TYPE_F32", "GGML_TYPE_F16", "GGML_TYPE_Q4_0", "GGML_TYPE_Q4_1",
       GGML_TYPE_UNKNOWN, GGML_TYPE_UNKNOWN, GGML_TYPE_UNKNOWN,
       "GGML_TYPE_Q5_0", "GGML_TYPE_Q5_1", "GGML_TYPE_Q8_0", "GGML_TYPE_COUNT" >>

\* An index outside the table reads whatever follows it in memory.
type_to_ggml(t) ==
    IF t \in 0..TYPE_COUNT THEN type_to_ggml_table[t + 1] ELSE "out_of_bounds"

type_to_string_table ==
    << "f32", "f16", "Q4_0", "Q4_1", "Q4_1_O", "Q4_2", "Q4_3", "Q5_0", "Q5_1", "Q8_0" >>

RECURSIVE type_from_string_loop(_, _)
type_from_string_loop(str, ord) ==
    IF ord < TYPE_COUNT
    THEN IF str = type_to_string_table[ord + 1]
         THEN ord
         ELSE type_from_string_loop(str, ord + 1)
    ELSE TYPE_UNKNOWN

\* A lookup whose answer for a name the table does not hold lies past
\* the end of type_to_ggml
type_from_string_PastTable(name) ==
    IF type_from_string_loop(name, 0) = TYPE_UNKNOWN THEN TYPE_COUNT + 1
    ELSE type_from_string_loop(name, 0)

type_from_string(str) == type_from_string_loop(str, 0)

\* ggml_is_quantized (ggml.c)
ggml_is_quantized(g) ==
    g \in {"GGML_TYPE_Q4_0", "GGML_TYPE_Q4_1", "GGML_TYPE_Q5_0", "GGML_TYPE_Q5_1",
           "GGML_TYPE_Q8_0"}

\* Bytes of one element of a backend type (ggml.c: GGML_TYPE_SIZE over
\* GGML_BLCK_SIZE); a quantized element is taken as one byte.
ggml_type_size(g) ==
    CASE g = "GGML_TYPE_F32" -> 4
      [] g = "GGML_TYPE_I32" -> 4
      [] g = "GGML_TYPE_F16" -> 2
      [] OTHER -> 1

\* ggml_nbytes of a tensor of ne[0] = width, ne[1] = height
ggml_nbytes(g, width, height) == width * height * ggml_type_size(g)

tensor_bytes(g, width, height) == ggml_nbytes(g, width, height)

\* static struct ggml_tensor decoy {} of tensor_bytes, zero-initialised (type
\* 0 is GGML_TYPE_F32); writer names the thread that stored each field last,
\* 0 when none has.
DecoyInit ==
    [type |-> "GGML_TYPE_F32", ne0 |-> 0, ne1 |-> 0,
     writer |-> [type |-> 0, ne0 |-> 0, ne1 |-> 0]]

\* A thread that is in no call
NoFrame == [pc |-> "idle"]

tensor_bytes_of(header) ==
    tensor_bytes(type_to_ggml(header.data_type), header.width, header.height)

(***************************************************************************)
(* Files and the primitive reads.                                          *)
(***************************************************************************)
SIZEOF_U32 == 4
SIZEOF_FILE_HEADER == 24
SIZEOF_TENSOR_HEADER == 20

\* The bytes of fields a..b, and the offsets at which they start when field
\* a starts at `at` (both by halving the range).
RECURSIVE SumLen(_, _, _)
SumLen(fields, a, b) ==
    IF a > b THEN 0
    ELSE IF a = b THEN fields[a].len
    ELSE SumLen(fields, a, (a + b) \div 2) + SumLen(fields, (a + b) \div 2 + 1, b)

RECURSIVE FieldStarts(_, _, _, _)
FieldStarts(fields, a, b, at) ==
    IF a > b THEN << >>
    ELSE IF a = b THEN <<at>>
    ELSE Bind(FieldStarts(fields, a, (a + b) \div 2, at), LAMBDA left :
         Bind(left[Len(left)] + fields[(a + b) \div 2].len, LAMBDA next :
             left \o FieldStarts(fields, (a + b) \div 2 + 1, b, next)))

\* A file of the given fields with its last `cut` bytes missing.
MkFile(fields, cut) ==
    Bind(fields, LAMBDA fs :
        [fields |-> fs, starts |-> FieldStarts(fs, 1, Len(fs), 0),
         size |-> Max(0, SumLen(fs, 1, Len(fs)) - cut)])

\* The last field among a..b that starts at or before pos, a when none does
RECURSIVE FieldAt(_, _, _, _)
FieldAt(starts, pos, a, b) ==
    IF a >= b THEN a
    ELSE IF starts[(a + b + 1) \div 2] <= pos
         THEN FieldAt(starts, pos, (a + b + 1) \div 2, b)
         ELSE FieldAt(starts, pos, a, (a + b + 1) \div 2 - 1)

\* fread(dest, length, 1, file) == 1: the whole item or nothing; an item of
\* length 0 is never read.  The result carries the new position.
fread_data(file, pos, length) ==
    Bind(FieldAt(file.starts, pos, 1, Len(file.fields)), LAMBDA k :
        IF \/ length = 0 \/ pos + length > file.size \/ Len(file.fields) = 0
           \/ file.starts[k] # pos \/ file.fields[k].len # length
        THEN [ok |-> FALSE, pos |-> pos, val |-> "none"]
        ELSE [ok |-> TRUE, pos |-> pos + length, val |-> file.fields[k].val])

fread_uint32(file, pos) == fread_data(file, pos, SIZEOF_U32)

fread_string(file, pos, length) == fread_data(file, pos, length)

(***************************************************************************)
(* File header.                                                            *)
(***************************************************************************)
is_file_version_in_range(version) ==
    version >= RWKV_FILE_VERSION_MIN /\ version <= RWKV_FILE_VERSION_MAX

\* The result of a reader: ok, the kinds it or-ed into the thread's error
\* word, the position it left the file at, and what it read.
Fail(err, pos) == [ok |-> FALSE, err |-> err, pos |-> pos, val |-> "none"]
Done(pos, val) == [ok |-> TRUE, err |-> RWKV_ERROR_NONE, pos |-> pos, val |-> val]

\* A header reader that checks the version before the magic
fread_file_header_VersionFirst(file, pos, verify_data_type) ==
    Bind(fread_data(file, pos, SIZEOF_FILE_HEADER), LAMBDA r :
        IF ~r.ok THEN Fail(RWKV_ERROR_FILE_READ, r.pos)
        ELSE IF ~is_file_version_in_range(r.val.version)
             THEN Fail(RWKV_ERROR_FILE_VERSION, r.pos)
        ELSE IF ~(r.val.magic = RWKV_FILE_MAGIC) THEN Fail(RWKV_ERROR_FILE_MAGIC, r.pos)
        ELSE IF ~(r.val.data_type < TYPE_COUNT) THEN Fail(RWKV_ERROR_DATA_TYPE, r.pos)
        ELSE IF verify_data_type /\ ~(type_to_ggml(r.val.data_type) # GGML_TYPE_UNKNOWN)
             THEN Fail(RWKV_ERROR_DATA_TYPE, r.pos)
        ELSE IF verify_data_type
                /\ ~(\/ ~ggml_is_quantized(type_to_ggml(r.val.data_type))
                     \/ r.val.version = RWKV_FILE_VERSION_1)
             THEN Fail(RWKV_ERROR_DATA_TYPE, r.pos)
        ELSE Done(r.pos, r.val))

\* A header reader that accepts a quantized type at every supported version
fread_file_header_AnyVersion(file, pos, verify_data_type) ==
    Bind(fread_data(file, pos, SIZEOF_FILE_HEADER), LAMBDA r :
        IF ~r.ok THEN Fail(RWKV_ERROR_FILE_READ, r.pos)
        ELSE IF ~(r.val.magic = RWKV_FILE_MAGIC) THEN Fail(RWKV_ERROR_FILE_MAGIC, r.pos)
        ELSE IF ~is_file_version_in_range(r.val.version)
             THEN Fail(RWKV_ERROR_FILE_VERSION, r.pos)
        ELSE IF ~(r.val.data_type < TYPE_COUNT) THEN Fail(RWKV_ERROR_DATA_TYPE, r.pos)
        ELSE IF verify_data_type /\ ~(type_to_ggml(r.val.data_type) # GGML_TYPE_UNKNOWN)
             THEN Fail(RWKV_ERROR_DATA_TYPE, r.pos)
        ELSE Done(r.pos, r.val))

fread_file_header(file, pos, verify_data_type) ==
    Bind(fread_data(file, pos, SIZEOF_FILE_HEADER), LAMBDA r :
        IF ~r.ok THEN Fail(RWKV_ERROR_FILE_READ, r.pos)
        ELSE IF ~(r.val.magic = RWKV_FILE_MAGIC) THEN Fail(RWKV_ERROR_FILE_MAGIC, r.pos)
        ELSE IF ~is_file_version_in_range(r.val.version)
             THEN Fail(RWKV_ERROR_FILE_VERSION, r.pos)
        ELSE IF ~(r.val.data_type < TYPE_COUNT) THEN Fail(RWKV_ERROR_DATA_TYPE, r.pos)
        ELSE IF verify_data_type /\ ~(type_to_ggml(r.val.data_type) # GGML_TYPE_UNKNOWN)
             THEN Fail(RWKV_ERROR_DATA_TYPE, r.pos)
        ELSE IF verify_data_type
                /\ ~(\/ ~ggml_is_quantized(type_to_ggml(r.val.data_type))
                     \/ r.val.version = RWKV_FILE_VERSION_1)
             THEN Fail(RWKV_ERROR_DATA_TYPE, r.pos)
        ELSE Done(r.pos, r.val))

(***************************************************************************)
(* Tensor record header.                                                   *)
(***************************************************************************)
\* First words whose height is left at 0
FirstWords_NoHeight(val) ==
    [dim_count |-> val.dim_count, key_length |-> val.key_length,
     data_type |-> val.data_type, width |-> val.width, height |-> 0]

\* The header with header.height = 1, after its first four words were read
FirstWords(val) ==
    [dim_count |-> val.dim_count, key_length |-> val.key_length,
     data_type |-> val.data_type, width |-> val.width, height |-> 1]

fread_tensor_header(file, pos) ==
    Bind(fread_data(file, pos, SIZEOF_TENSOR_HEADER - SIZEOF_U32), LAMBDA r :
        IF ~r.ok THEN Fail(RWKV_ERROR_FILE_READ, r.pos)
        ELSE IF ~(r.val.dim_count = 1 \/ r.val.dim_count = 2)
             THEN Fail(RWKV_ERROR_SHAPE, r.pos)
        ELSE IF ~(r.val.data_type < TYPE_COUNT) THEN Fail(RWKV_ERROR_DATA_TYPE, r.pos)
        ELSE IF ~(type_to_ggml(r.val.data_type) # GGML_TYPE_UNKNOWN)
             THEN Fail(RWKV_ERROR_DATA_TYPE, r.pos)
        ELSE IF r.val.dim_count = 2
             THEN Bind(fread_uint32(file, r.pos), LAMBDA rh :
                      IF ~rh.ok THEN Fail(RWKV_ERROR_FILE_READ, rh.pos)
                      ELSE Done(rh.pos, [FirstWords(r.val) EXCEPT !.height = rh.val]))
        ELSE Done(r.pos, FirstWords(r.val)))

(***************************************************************************)
(* Floats and the backend's element-wise and matrix operations (ggml.c),   *)
(* on vectors held as sequences.                                           *)
(***************************************************************************)
F(x) == IF x > FloatMax THEN FloatMax ELSE IF x < -FloatMax THEN -FloatMax ELSE x

\* An element-wise operation on one vector, and on two of one length
Map1(a, Op(_)) == Bind(a, LAMBDA av : Vec([i \in 1..Len(av) |-> Op(av[i])]))
Map2(a, b, Op(_, _)) ==
    Bind2(a, b, LAMBDA av, bv : Vec([i \in 1..Len(av) |-> Op(av[i], bv[i])]))

ggml_add(a, b) == Map2(a, b, LAMBDA p, q : F(p + q))
ggml_sub(a, b) == Map2(a, b, LAMBDA p, q : F(p - q))
ggml_mul(a, b) == Map2(a, b, LAMBDA p, q : F(p * q))
\* x / 0 is an infinity of the sign of x, and 0 / 0 is taken as 0
ggml_div(a, b) ==
    Map2(a, b, LAMBDA p, q :
        IF q = 0 THEN (IF p > 0 THEN FloatMax ELSE IF p < 0 THEN -FloatMax ELSE 0)
        ELSE F(p \div q))
ggml_relu(a) == Map1(a, LAMBDA p : Max(p, 0))
ggml_sqr(a) == Map1(a, LAMBDA p : F(p * p))

RECURSIVE VSum(_, _)
VSum(v, k) == IF k > Len(v) THEN 0 ELSE v[k] + VSum(v, k + 1)

\* ggml_norm: x - mean(x); the division by the deviation is left out
ggml_norm(x) ==
    Bind(x, LAMBDA xv :
    Bind(VSum(xv, 1) \div Len(xv), LAMBDA mean :
        Vec([i \in 1..Len(xv) |-> F(xv[i] - mean)])))

\* Row r (from 1) of w times x
RowTimes(w, r, x) == VSum(Vec([i \in 1..w.width |-> w.data[(r - 1) * w.width + i] * x[i]]), 1)

\* ggml_mul_mat(w, x): w has ne[0] = width columns and ne[1] = height rows
ggml_mul_mat(w, x) ==
    Bind2(w, x, LAMBDA wv, xv : Vec([r \in 1..wv.height |-> F(RowTimes(wv, r, xv))]))

\* ggml_get_rows(w, token): row `token` of w
ggml_get_rows(w, token) ==
    Bind(w, LAMBDA wv : Vec([i \in 1..wv.width |-> wv.data[token * wv.width + i]]))

\* ggml_view_1d(t, n, byte offset), the offset given in elements
ggml_view_1d(data, n, offset) ==
    Bind(data, LAMBDA dv : Vec([i \in 1..n |-> dv[offset + i]]))

\* p * 2^x, saturating
RECURSIVE Pow2Sat(_, _)
Pow2Sat(p, x) == IF x <= 0 \/ p >= FloatMax THEN F(p) ELSE Pow2Sat(2 * p, x - 1)

\* expf on the integer floats: exp(0) = 1, below 0 it underflows to 0
rwkv_exp_impl(x) == IF x < 0 THEN 0 ELSE Pow2Sat(1, x)
rwkv_1_minus_x_impl(x) == F(1 - x)
\* 1 / (1 + exp(-x)) on the integer floats
rwkv_sigmoid_impl(x) == 1 \div (1 + rwkv_exp_impl(-x))
rwkv_max_impl(x, y) == Max(x, y)

rwkv_exp(x) == Map1(x, LAMBDA p : rwkv_exp_impl(p))
rwkv_1_minus_x(x) == Map1(x, LAMBDA p : rwkv_1_minus_x_impl(p))
rwkv_sigmoid(x) == Map1(x, LAMBDA p : rwkv_sigmoid_impl(p))
rwkv_max(x, y) == Map2(x, y, LAMBDA p, q : rwkv_max_impl(p, q))

rwkv_layer_norm(x, weight, bias) == ggml_add(ggml_mul(ggml_norm(x), weight.data), bias.data)

(***************************************************************************)
(* The single-step graph.  A layer is the record of its parameter tensors  *)
(* and of its five state parts; the substeps return the new x and the      *)
(* layer with its state parts replaced by the next step's.                 *)
(***************************************************************************)
\* xx * time_mix + state * (1 - time_mix)
TimeMix(x0, state, time_mix) ==
    ggml_add(ggml_mul(x0, time_mix.data), ggml_mul(state, rwkv_1_minus_x(time_mix.data)))

\* The arguments of the four exponentials without the subtraction of the
\* maximum
AttExpArgs_NoMax(lay, key) ==
    Bind2(ggml_add(lay.att_time_first.data, key),
          ggml_add(lay.att_pp, lay.att_time_decay.data), LAMBDA ww, ww2 :
    Bind2(rwkv_max(lay.att_pp, ww), rwkv_max(ww2, key), LAMBDA qq, qq2 :
        [ww |-> ww, qq |-> qq, ww2 |-> ww2, qq2 |-> qq2,
         d1 |-> lay.att_pp, d2 |-> ww, d1n |-> ww2, d2n |-> key]))

\* ww, qq and the arguments of the four exponentials of rwkv_single_att:
\* pp - qq and ww - qq for the output, ww - qq and k - qq, with the second ww
\* and qq, for the next state
AttExpArgs(layer, k) ==
    Bind2(ggml_add(layer.att_time_first.data, k),
          ggml_add(layer.att_pp, layer.att_time_decay.data), LAMBDA ww, ww2 :
    Bind2(rwkv_max(layer.att_pp, ww), rwkv_max(ww2, k), LAMBDA qq, qq2 :
        [ww |-> ww, qq |-> qq, ww2 |-> ww2, qq2 |-> qq2,
         d1 |-> ggml_sub(layer.att_pp, qq), d2 |-> ggml_sub(ww, qq),
         d1n |-> ggml_sub(ww2, qq2), d2n |-> ggml_sub(k, qq2)]))

\* rwkv_single_att: x after the time-mix substep, the layer with its next
\* att_xx, att_aa, att_bb and att_pp, and the intermediate tensors
rwkv_single_att(x, layer) ==
    Bind(rwkv_layer_norm(x, layer.ln1_weight, layer.ln1_bias), LAMBDA x0 :
    Bind3(TimeMix(x0, layer.att_xx, layer.att_time_mix_k),
          TimeMix(x0, layer.att_xx, layer.att_time_mix_v),
          TimeMix(x0, layer.att_xx, layer.att_time_mix_r), LAMBDA xk, xv, xr :
    Bind3(rwkv_sigmoid(ggml_mul_mat(layer.att_receptance, xr)),
          ggml_mul_mat(layer.att_key, xk),
          ggml_mul_mat(layer.att_value, xv), LAMBDA r, k, v :
    Bind(AttExpArgs(layer, k), LAMBDA g :
    Bind4(rwkv_exp(g.d1), rwkv_exp(g.d2), rwkv_exp(g.d1n), rwkv_exp(g.d2n),
          LAMBDA e1, e2, e1n, e2n :
    Bind2(ggml_add(ggml_mul(e1, layer.att_aa), ggml_mul(e2, v)),
          ggml_add(ggml_mul(e1, layer.att_bb), e2), LAMBDA a, b :
        [x |-> ggml_add(x, ggml_mul_mat(layer.att_output, ggml_mul(r, ggml_div(a, b)))),
         layer |-> [layer EXCEPT
                        !.att_xx = x0,
                        !.att_aa = ggml_add(ggml_mul(e1n, layer.att_aa), ggml_mul(e2n, v)),
                        !.att_bb = ggml_add(ggml_mul(e1n, layer.att_bb), e2n),
                        !.att_pp = g.qq2],
         k |-> k, v |-> v, args |-> g, a |-> a, b |-> b]))))))

rwkv_single_ffn(x, layer) ==
    Bind(rwkv_layer_norm(x, layer.ln2_weight, layer.ln2_bias), LAMBDA x0 :
    Bind2(TimeMix(x0, layer.ffn_xx, layer.ffn_time_mix_k),
          TimeMix(x0, layer.ffn_xx, layer.ffn_time_mix_r), LAMBDA xk, xr :
    Bind2(rwkv_sigmoid(ggml_mul_mat(layer.ffn_receptance, xr)),
          ggml_sqr(ggml_relu(ggml_mul_mat(layer.ffn_key, xk))), LAMBDA r, k :
        [x |-> ggml_add(x, ggml_mul(r, ggml_mul_mat(layer.ffn_value, k))),
         layer |-> [layer EXCEPT !.ffn_xx = x0]])))

\* Views in which att_aa and att_bb have changed places
LayerViews_Swapped(layer, input_state, n_embed, i) ==
    [layer EXCEPT
        !.ffn_xx = ggml_view_1d(input_state, n_embed, n_embed * (i * 5 + 0)),
        !.att_xx = ggml_view_1d(input_state, n_embed, n_embed * (i * 5 + 1)),
        !.att_aa = ggml_view_1d(input_state, n_embed, n_embed * (i * 5 + 3)),
        !.att_bb = ggml_view_1d(input_state, n_embed, n_embed * (i * 5 + 2)),
        !.att_pp = ggml_view_1d(input_state, n_embed, n_embed * (i * 5 + 4))]

\* The five views of layer i (from 0) into the input state, bound to the layer.
LayerViews(layer, input_state, n_embed, i) ==
    [layer EXCEPT
        !.ffn_xx = ggml_view_1d(input_state, n_embed, n_embed * (i * 5 + 0)),
        !.att_xx = ggml_view_1d(input_state, n_embed, n_embed * (i * 5 + 1)),
        !.att_aa = ggml_view_1d(input_state, n_embed, n_embed * (i * 5 + 2)),
        !.att_bb = ggml_view_1d(input_state, n_embed, n_embed * (i * 5 + 3)),
        !.att_pp = ggml_view_1d(input_state, n_embed, n_embed * (i * 5 + 4))]

\* The loop over the layers: x after layer i and the output-state parts so far.
RECURSIVE GraphLayers(_, _, _, _, _)
GraphLayers(model, input_state, x, i, parts) ==
    IF i >= model.header.n_layer THEN [x |-> x, output_state |-> parts]
    ELSE Bind(LayerViews(model.layers[i + 1], input_state, model.header.n_embed, i),
              LAMBDA layer :
         Bind(rwkv_single_att(x, layer), LAMBDA att :
         Bind(rwkv_single_ffn(att.x, att.layer), LAMBDA ffn :
         Bind(parts \o <<ffn.layer.ffn_xx, ffn.layer.att_xx, ffn.layer.att_aa,
                         ffn.layer.att_bb, ffn.layer.att_pp>>, LAMBDA next :
             GraphLayers(model, input_state, ffn.x, i + 1, next)))))

\* The graph built by rwkv_single_graph, as the values it computes from the
\* contents of input_state and token_index: the logits and the n_layer * 5
\* output-state parts.
rwkv_single_graph(model, input_state, token_index) ==
    Bind(rwkv_layer_norm(ggml_get_rows(model.emb, token_index),
                         model.ln0_weight, model.ln0_bias), LAMBDA x :
    Bind(GraphLayers(model, input_state, x, 0, << >>), LAMBDA ls :
        [logits |-> ggml_mul_mat(model.head,
                                 rwkv_layer_norm(ls.x, model.ln_out_weight, model.ln_out_bias)),
         output_state |-> ls.output_state]))

(***************************************************************************)
(* The parameter schedule.                                                 *)
(***************************************************************************)
\* The per-layer keys after "blocks.<i>.", in the order rwkv_set_params
\* asks for them.
LayerSchedule ==
    << "ln1.weight", "ln1.bias",
       "att.time_mix_k", "att.time_mix_v", "att.time_mix_r", "att.time_first",
       "att.time_decay", "att.key.weight", "att.value.weight", "att.receptance.weight",
       "att.output.weight",
       "ln2.weight", "ln2.bias",
       "ffn.time_mix_k", "ffn.time_mix_r", "ffn.key.weight", "ffn.value.weight",
       "ffn.receptance.weight" >>

\* sprintf(buffer, "blocks.%d.", i) followed by the strcpy of the suffix
LayerKey(i, suffix) == "blocks." \o ToString(i) \o "." \o suffix

\* The keys asked for before the layers are allocated, and after the layers
KeysBeforeLayers == <<"emb.weight", "blocks.0.ln0.weight", "blocks.0.ln0.bias">>
KeysAfterLayers == <<"ln_out.weight", "ln_out.bias", "head.weight">>

\* Layer i of the model, its parameters bound; its state parts are bound
\* when the graph is built.
BoundLayer(parameters, i) ==
    [ln1_weight |-> parameters[LayerKey(i, "ln1.weight")],
     ln1_bias |-> parameters[LayerKey(i, "ln1.bias")],
     att_time_mix_k |-> parameters[LayerKey(i, "att.time_mix_k")],
     att_time_mix_v |-> parameters[LayerKey(i, "att.time_mix_v")],
     att_time_mix_r |-> parameters[LayerKey(i, "att.time_mix_r")],
     att_time_first |-> parameters[LayerKey(i, "att.time_first")],
     att_time_decay |-> parameters[LayerKey(i, "att.time_decay")],
     att_key |-> parameters[LayerKey(i, "att.key.weight")],
     att_value |-> parameters[LayerKey(i, "att.value.weight")],
     att_receptance |-> parameters[LayerKey(i, "att.receptance.weight")],
     att_output |-> parameters[LayerKey(i, "att.output.weight")],
     ln2_weight |-> parameters[LayerKey(i, "ln2.weight")],
     ln2_bias |-> parameters[LayerKey(i, "ln2.bias")],
     ffn_time_mix_k |-> parameters[LayerKey(i, "ffn.time_mix_k")],
     ffn_time_mix_r |-> parameters[LayerKey(i, "ffn.time_mix_r")],
     ffn_key |-> parameters[LayerKey(i, "ffn.key.weight")],
     ffn_value |-> parameters[LayerKey(i, "ffn.value.weight")],
     ffn_receptance |-> parameters[LayerKey(i, "ffn.receptance.weight")],
     ffn_xx |-> << >>, att_xx |-> << >>, att_aa |-> << >>, att_bb |-> << >>,
     att_pp |-> << >>]

\* A binder that binds the layers' slots without looking whether their
\* keys were found: a slot of a key not found is NULL
rwkv_set_params_LayersUnchecked(header, parameters, layers_alloc_ok) ==
    Bind2(DOMAIN parameters,
          [key \in {LayerKey(i, LayerSchedule[k]) :
                        i \in 0..(header.n_layer - 1), k \in 1..Len(LayerSchedule)}
               \ DOMAIN parameters |-> [null |-> TRUE]] @@ parameters,
          LAMBDA found, looked_up :
        IF \E k \in 1..Len(KeysBeforeLayers) : KeysBeforeLayers[k] \notin found
        THEN [ok |-> FALSE, err |-> RWKV_ERROR_NONE, model |-> << >>]
        ELSE IF ~layers_alloc_ok
        THEN [ok |-> FALSE, err |-> RWKV_ERROR_ALLOC, model |-> << >>]
        ELSE IF \E k \in 1..Len(KeysAfterLayers) : KeysAfterLayers[k] \notin found
        THEN [ok |-> FALSE, err |-> RWKV_ERROR_NONE, model |-> << >>]
        ELSE [ok |-> TRUE, err |-> RWKV_ERROR_NONE,
              model |-> [header |-> header,
                         emb |-> parameters["emb.weight"],
                         ln0_weight |-> parameters["blocks.0.ln0.weight"],
                         ln0_bias |-> parameters["blocks.0.ln0.bias"],
                         layers |-> Vec([i \in 1..header.n_layer |->
                                            BoundLayer(looked_up, i - 1)]),
                         ln_out_weight |-> parameters["ln_out.weight"],
                         ln_out_bias |-> parameters["ln_out.bias"],
                         head |-> parameters["head.weight"]]])

\* rwkv_set_params with the callback of rwkv_init_from_file, which finds a
\* key in the mapping or fails: whether every key was found, the kinds or-ed
\* into the thread's error word, and the model.
rwkv_set_params(header, parameters, layers_alloc_ok) ==
    Bind(DOMAIN parameters, LAMBDA found :
        IF \E k \in 1..Len(KeysBeforeLayers) : KeysBeforeLayers[k] \notin found
        THEN [ok |-> FALSE, err |-> RWKV_ERROR_NONE, model |-> << >>]
        ELSE IF ~layers_alloc_ok
        THEN [ok |-> FALSE, err |-> RWKV_ERROR_ALLOC, model |-> << >>]
        ELSE IF \E i \in 0..(header.n_layer - 1), k \in 1..Len(LayerSchedule) :
                    LayerKey(i, LayerSchedule[k]) \notin found
        THEN [ok |-> FALSE, err |-> RWKV_ERROR_NONE, model |-> << >>]
        ELSE IF \E k \in 1..Len(KeysAfterLayers) : KeysAfterLayers[k] \notin found
        THEN [ok |-> FALSE, err |-> RWKV_ERROR_NONE, model |-> << >>]
        ELSE [ok |-> TRUE, err |-> RWKV_ERROR_NONE,
              model |-> [header |-> header,
                         emb |-> parameters["emb.weight"],
                         ln0_weight |-> parameters["blocks.0.ln0.weight"],
                         ln0_bias |-> parameters["blocks.0.ln0.bias"],
                         layers |-> Vec([i \in 1..header.n_layer |->
                                            BoundLayer(parameters, i - 1)]),
                         ln_out_weight |-> parameters["ln_out.weight"],
                         ln_out_bias |-> parameters["ln_out.bias"],
                         head |-> parameters["head.weight"]]])

(***************************************************************************)
(* Model files.  A file is described by its header fields, the width of    *)
(* its ffn layer, a seed for its weights, and at most one tensor record    *)
(* written with another dimension count or type code, one written with     *)
(* another shape, one left out, and another ffn width in the layers after  *)
(* the first; FileOf lays the description out in the container format.     *)
(***************************************************************************)
Matrix(key, width, height) ==
    [key |-> key, dim_count |-> 2, width |-> width, height |-> height]
Vector(key, width) == [key |-> key, dim_count |-> 1, width |-> width, height |-> 1]

\* The records of layer i of a well-formed model, in the order of the schedule
LayerRecords(i, n_embed, ffn) ==
    Vec([k \in 1..Len(LayerSchedule) |->
            IF LayerSchedule[k] = "ffn.key.weight"
            THEN Matrix(LayerKey(i, LayerSchedule[k]), n_embed, ffn)
            ELSE IF LayerSchedule[k] = "ffn.value.weight"
            THEN Matrix(LayerKey(i, LayerSchedule[k]), ffn, n_embed)
            ELSE IF LayerSchedule[k] \in {"att.key.weight", "att.value.weight",
                                          "att.receptance.weight", "att.output.weight",
                                          "ffn.receptance.weight"}
            THEN Matrix(LayerKey(i, LayerSchedule[k]), n_embed, n_embed)
            ELSE Vector(LayerKey(i, LayerSchedule[k]), n_embed)])

RECURSIVE LayersRecords(_, _, _, _)
LayersRecords(i, n_layer, n_embed, ffn) ==
    IF i >= n_layer THEN << >>
    ELSE LayerRecords(i, n_embed, ffn) \o LayersRecords(i + 1, n_layer, n_embed, ffn)

\* The tensor records of a well-formed model: key, dimensions, width, height.
ModelRecords(n_vocab, n_embed, n_layer, ffn) ==
    << Matrix("emb.weight", n_embed, n_vocab), Vector("blocks.0.ln0.weight", n_embed),
       Vector("blocks.0.ln0.bias", n_embed) >>
    \o LayersRecords(0, n_layer, n_embed, ffn)
    \o << Vector("ln_out.weight", n_embed), Vector("ln_out.bias", n_embed),
          Matrix("head.weight", n_embed, n_vocab) >>

\* The weights of record k: small values that differ along the record.
Weights(k, n, seed) == Vec([j \in 1..n |-> ((k * 3 + j * 5 + seed) % 4) - 1])

\* The fields of one tensor record as fwrite_tensor_header and the
\* converters write it: the height only when there are two dimensions.
RecordFields(k, rec, data_type, seed) ==
    Bind(rec.width * (IF rec.dim_count >= 2 THEN rec.height ELSE 1), LAMBDA n :
        << [len |-> SIZEOF_TENSOR_HEADER - SIZEOF_U32,
            val |-> [dim_count |-> rec.dim_count, key_length |-> Len(rec.key),
                     data_type |-> data_type, width |-> rec.width]] >>
        \o (IF rec.dim_count >= 2 THEN << [len |-> SIZEOF_U32, val |-> rec.height] >>
            ELSE << >>)
        \o << [len |-> Len(rec.key), val |-> rec.key] >>
        \o << [len |-> n * ggml_type_size(type_to_ggml(data_type)),
               val |-> Weights(k, n, seed)] >>)

\* The records of the described file: those of a well-formed model, the
\* layers after the first with their own ffn width (in ffn.key.weight and
\* ffn.value.weight alike) and record d.alt with the shape d.alt_w, d.alt_h.
DescribedRecords(d) ==
    Bind(ModelRecords(d.n_vocab, d.n_embed, d.n_layer, d.ffn), LAMBDA recs :
        Vec([k \in 1..Len(recs) |->
            IF k = d.alt THEN [recs[k] EXCEPT !.width = d.alt_w, !.height = d.alt_h]
            ELSE IF \E i \in 1..(d.n_layer - 1) : recs[k].key = LayerKey(i, "ffn.key.weight")
            THEN [recs[k] EXCEPT !.height = d.ffn_rest]
            ELSE IF \E i \in 1..(d.n_layer - 1) : recs[k].key = LayerKey(i, "ffn.value.weight")
            THEN [recs[k] EXCEPT !.width = d.ffn_rest]
            ELSE recs[k]]))

\* Record k of the described file: the one record the description changes
\* carries its dimension count and type code, matrices carry the file's
\* type, and the record left out has no fields.
RecordOf(d, recs, k) ==
    IF k = d.drop THEN << >>
    ELSE IF k = d.rec
    THEN RecordFields(k, [recs[k] EXCEPT !.dim_count = d.rec_dim], d.rec_type, d.seed)
    ELSE RecordFields(k, recs[k], IF recs[k].dim_count = 2 THEN d.data_type ELSE TYPE_F32,
                      d.seed)

\* The fields of records a..b, in order
RECURSIVE AllRecordFields(_, _, _, _)
AllRecordFields(d, recs, a, b) ==
    IF a > b THEN << >>
    ELSE IF a = b THEN RecordOf(d, recs, a)
    ELSE AllRecordFields(d, recs, a, (a + b) \div 2)
         \o AllRecordFields(d, recs, (a + b) \div 2 + 1, b)

FileOf(d) ==
    Bind(DescribedRecords(d), LAMBDA recs :
        MkFile(<< [len |-> SIZEOF_FILE_HEADER,
                   val |-> [magic |-> d.magic, version |-> d.version, n_vocab |-> d.n_vocab,
                            n_embed |-> d.n_embed, n_layer |-> d.n_layer,
                            data_type |-> d.data_type]] >>
               \o AllRecordFields(d, recs, 1, Len(recs)),
               d.cut))

(***************************************************************************)
(* Loading a model.                                                        *)
(***************************************************************************)
NULL == [null |-> TRUE]
Ref(data) == [null |-> FALSE, data |-> data]

\* fseek(file, offset, SEEK_CUR): the position moves, also past the end
fseek_cur(pos, offset) == pos + offset

\* A while (ftell(file) < size) loop runs its body at most once per tensor
\* header that fits in the file, every turn consuming at least one.
LoopBound(file) == file.size \div (SIZEOF_TENSOR_HEADER - SIZEOF_U32) + 1

\* The first half of a turn of the planning loop: the record's header and key
\* are read; the result keeps them for the second half.
PlanRead(file, s) ==
    Bind(fread_tensor_header(file, s.pos), LAMBDA h :
        IF ~h.ok
        THEN [ok |-> FALSE, err |-> ErrOr(h.err, RWKV_ERROR_MODEL_PARAMS), pos |-> h.pos,
              ffn_key |-> s.ffn_key, done |-> TRUE]
        ELSE Bind(fread_string(file, h.pos, h.val.key_length), LAMBDA name :
            IF ~name.ok
            THEN [ok |-> FALSE, err |-> RWKV_ERROR_MODEL_PARAMS, pos |-> name.pos,
                  ffn_key |-> s.ffn_key, done |-> TRUE]
            ELSE [ok |-> TRUE, err |-> RWKV_ERROR_NONE, pos |-> name.pos,
                  ffn_key |-> s.ffn_key, done |-> FALSE,
                  header |-> h.val, name |-> name.val]))

\* The second half: fseek over the payload by the size tensor_bytes returned,
\* and the first blocks.0.ffn.key.weight gives ffn_key.
PlanSkip(file, r, size) ==
    Bind(fseek_cur(r.pos, size), LAMBDA after :
        [ok |-> TRUE, err |-> RWKV_ERROR_NONE, pos |-> after,
         ffn_key |-> IF r.ffn_key = 0 /\ r.name = "blocks.0.ffn.key.weight"
                     THEN r.header.height ELSE r.ffn_key,
         done |-> ~(after < file.size)])

\* One turn of the planning loop of rwkv_init_from_file: a record's header
\* and key are read and its payload is skipped; ffn_key is the height of the
\* first record named blocks.0.ffn.key.weight.
PlanStep(file, s) ==
    Bind(PlanRead(file, s), LAMBDA r :
        IF ~r.ok THEN r ELSE PlanSkip(file, r, tensor_bytes_of(r.header)))

\* n turns of the planning loop, or fewer when it ends before
RECURSIVE PlanLoop(_, _, _)
PlanLoop(file, s, n) ==
    IF n = 0 \/ s.done THEN s
    ELSE IF n = 1 THEN PlanStep(file, s)
    ELSE Bind(PlanLoop(file, s, n \div 2), LAMBDA half :
             PlanLoop(file, half, n - (n \div 2)))

PlanPass(file, pos, ffn_key) ==
    Bind([ok |-> TRUE, err |-> RWKV_ERROR_NONE, pos |-> pos, ffn_key |-> ffn_key,
          done |-> ~(pos < file.size)], LAMBDA s : PlanLoop(file, s, LoopBound(file)))

\* fread_ggml_tensor_data: the key, a new tensor of the header's type and
\* shape, and its payload.
fread_ggml_tensor_data(file, pos, header) ==
    Bind(fread_string(file, pos, header.key_length), LAMBDA name :
        IF ~name.ok THEN Fail(RWKV_ERROR_FILE_READ, name.pos)
        ELSE IF ~(type_to_ggml(header.data_type) # GGML_TYPE_UNKNOWN)
        THEN Fail(RWKV_ERROR_UNSUPPORTED, name.pos)
        ELSE Bind2(type_to_ggml(header.data_type),
                   IF header.dim_count = 1 THEN 1 ELSE header.height,
                   LAMBDA ggml_type, height :
            Bind(fread_data(file, name.pos, ggml_nbytes(ggml_type, header.width, height)),
                 LAMBDA data :
                IF ~data.ok THEN Fail(RWKV_ERROR_FILE_READ, data.pos)
                ELSE Done(data.pos,
                          [name |-> name.val,
                           tensor |-> [n_dims |-> header.dim_count, type |-> ggml_type,
                                       width |-> header.width, height |-> height,
                                       data |-> data.val]]))))

fread_ggml_tensor(file, pos) ==
    Bind(fread_tensor_header(file, pos), LAMBDA h :
        IF ~h.ok THEN Fail(h.err, h.pos) ELSE fread_ggml_tensor_data(file, h.pos, h.val))

\* One turn of the second loop: a record is read into the arena and entered
\* in the mapping under its key, a later record replacing an earlier one of
\* its key.
ReadStep(file, s) ==
    Bind(fread_ggml_tensor(file, s.pos), LAMBDA r :
        IF ~r.ok
        THEN [ok |-> FALSE, err |-> ErrOr(r.err, RWKV_ERROR_MODEL_PARAMS), pos |-> r.pos,
              parameters |-> s.parameters, done |-> TRUE]
        ELSE [ok |-> TRUE, err |-> RWKV_ERROR_NONE, pos |-> r.pos,
              parameters |-> (r.val.name :> r.val.tensor) @@ s.parameters,
              done |-> ~(r.pos < file.size)])

RECURSIVE ReadLoop(_, _, _)
ReadLoop(file, s, n) ==
    IF n = 0 \/ s.done THEN s
    ELSE IF n = 1 THEN ReadStep(file, s)
    ELSE Bind(ReadLoop(file, s, n \div 2), LAMBDA half :
             ReadLoop(file, half, n - (n \div 2)))

ReadPass(file, pos, parameters) ==
    Bind([ok |-> TRUE, err |-> RWKV_ERROR_NONE, pos |-> pos, parameters |-> parameters,
          done |-> ~(pos < file.size)], LAMBDA s : ReadLoop(file, s, LoopBound(file)))

\* The tensors rwkv_single_graph creates, before any evaluation: their
\* contents are whatever the arena held.
NewGraph(model, junk) ==
    [input_state |-> Vec([i \in 1..(model.header.n_layer * 5 * model.header.n_embed) |->
                             junk]),
     token_index |-> junk,
     output_state |-> Vec([i \in 1..(model.header.n_layer * 5) |->
                              Vec([j \in 1..model.header.n_embed |-> junk])]),
     logits |-> Vec([i \in 1..model.head.height |-> junk])]

\* A new ggml_context (ggml_init), and ggml_free of one: the backend keeps
\* no count, it is kept here to tell a second release from the first.
ggml_init == [null |-> FALSE, live |-> TRUE, frees |-> 0]
ggml_free(arena) == [null |-> FALSE, live |-> FALSE, frees |-> arena.frees + 1]

\* A guard whose destructor leaves the file as it is
rwkv_file_guard_NoClose(guard, file) == file

\* ~rwkv_file_guard and ~rwkv_ggml_guard: what the guard holds is released
rwkv_file_guard(guard, file) == IF guard # NULL THEN "closed" ELSE file
rwkv_ggml_guard(guard, arena) == IF guard # NULL THEN ggml_free(arena) ELSE arena

\* file_guard = { NULL }: the guard is assigned a guard of no file, and
\* lets go of the file it held without closing it
ResetFileGuard(guard) == NULL

\* A guard that is left holding the arena
DisarmGgmlGuard_Armed(guard) == guard

\* ggml_guard.ctx = NULL
DisarmGgmlGuard(guard) == NULL

\* What can fail around the file's contents: the system calls and the
\* allocations of rwkv_init_from_file, in the order they are made.
LoadFailures == {"none", "fopen", "fstat", "scratch", "ggml_init", "layers", "cgraph", "ctx"}

NoLoad(err) == [ctx |-> NULL, err |-> err]

\* The steps of rwkv_init_from_file after the header has been read, in the
\* order of its statements: the scan of the records that sizes the
\* allocations, the scratch buffer, the ggml context, the scratch region
\* set, the records read into tensors, the parameters bound, the embedding
\* verified, the graph built, the context allocated, the scratch region
\* cleared
LoadSchedule ==
    << "plan_pass", "new_scratch", "ggml_init", "ggml_set_scratch", "read_pass",
       "rwkv_set_params", "verify_emb", "rwkv_single_graph", "new_rwkv_context",
       "ggml_clear_scratch" >>

\* A load that returns from the context's allocation without the last step
Phases_ScratchKept(step) ==
    SubSeq(LoadSchedule, 1,
           Min(Len(LoadSchedule) - 1,
               CHOOSE k \in 1..Len(LoadSchedule) : LoadSchedule[k] = step))

\* The steps a call has taken when it returns from the given one
Phases(upto) ==
    SubSeq(LoadSchedule, 1, CHOOSE k \in 1..Len(LoadSchedule) : LoadSchedule[k] = upto)

\* A result of the steps that follow the read pass, with the step that
\* returned it
AtStep(r, step) == [ctx |-> r.ctx, err |-> r.err, step |-> step]

\* Checks of the embedding matrix that leave out its height
VerifyEmb_WidthOnly(emb, header) ==
    IF ~(emb.n_dims = 2) THEN ErrOr(RWKV_ERROR_MODEL_PARAMS, RWKV_ERROR_SHAPE)
    ELSE IF ~(emb.width = header.n_embed)
    THEN ErrOr(RWKV_ERROR_MODEL_PARAMS, RWKV_ERROR_DIMENSION)
    ELSE RWKV_ERROR_NONE

\* The three checks of the embedding matrix, in order: the kinds or-ed into
\* the thread's error word by the first that fails, NONE when all pass.
VerifyEmb(emb, header) ==
    IF ~(emb.n_dims = 2) THEN ErrOr(RWKV_ERROR_MODEL_PARAMS, RWKV_ERROR_SHAPE)
    ELSE IF ~(emb.width = header.n_embed)
    THEN ErrOr(RWKV_ERROR_MODEL_PARAMS, RWKV_ERROR_DIMENSION)
    ELSE IF ~(emb.height = header.n_vocab)
    THEN ErrOr(RWKV_ERROR_MODEL_PARAMS, RWKV_ERROR_DIMENSION)
    ELSE RWKV_ERROR_NONE

\* rwkv_init_from_file once the mapping is complete: the parameters are
\* bound, the embedding matrix is verified and the graph is built.  The
\* context holds the arena (ctx) and the scratch buffer moved into it.
InitModel(header, parameters, fail, junk) ==
    Bind(rwkv_set_params(header, parameters, fail # "layers"), LAMBDA bound :
        IF ~bound.ok
        THEN AtStep(NoLoad(ErrOr(bound.err,
                                 ErrOr(RWKV_ERROR_MODEL_PARAMS, RWKV_ERROR_PARAM_MISSING))),
                    "rwkv_set_params")
        ELSE IF VerifyEmb(bound.model.emb, header) # RWKV_ERROR_NONE
        THEN AtStep(NoLoad(VerifyEmb(bound.model.emb, header)), "verify_emb")
        ELSE IF fail = "cgraph"
        THEN AtStep(NoLoad(ErrOr(RWKV_ERROR_ALLOC, RWKV_ERROR_GRAPH)), "rwkv_single_graph")
        ELSE IF fail = "ctx"
        THEN AtStep(NoLoad(ErrOr(RWKV_ERROR_CTX, RWKV_ERROR_ALLOC)), "new_rwkv_context")
        ELSE AtStep([ctx |-> [null |-> FALSE, model |-> bound.model,
                              graph |-> NewGraph(bound.model, junk),
                              last_error |-> RWKV_ERROR_NONE,
                              ctx |-> ggml_init, scratch |-> "held"],
                     err |-> RWKV_ERROR_NONE],
                    "ggml_clear_scratch"))

\* The return of rwkv_init_from_file: the destructors of the two guards
\* run on what they hold.  file is the state of the FILE the call opened
\* ("none" when it opened none), arena the ggml_context it created (NULL
\* when it created none); a context returned holds the arena as the
\* destructors leave it.
Return(r, file, file_guard, arena, ggml_guard) ==
    Bind2(rwkv_file_guard(file_guard, file),
          IF arena = NULL THEN NULL ELSE rwkv_ggml_guard(ggml_guard, arena),
          LAMBDA file_after, arena_after :
        [ctx |-> IF r.ctx = NULL THEN NULL ELSE [r.ctx EXCEPT !.ctx = arena_after],
         err |-> r.err, planned |-> 0, file |-> file_after, arena |-> arena_after,
         phases |-> << >>])

\* rwkv_init_from_file from its fopen on: the context it returns (or NULL),
\* the kinds it or-s into the thread's error word, the ffn width its
\* planner sized the arena for (0 when it did not get that far), and the
\* FILE and the arena as the call leaves them.
\* rwkv_init_from_file from the end of the planning loop on: h is the file
\* header as read, plan the state the loop ended in.
LoadAfterPlan(file, h, plan, fail, junk) ==
    IF ~plan.ok
    THEN [Return(NoLoad(plan.err), "open", Ref("file"), NULL, NULL)
          EXCEPT !.phases = Phases("plan_pass")]
    ELSE IF ~(plan.ffn_key # 0)
    THEN [Return(NoLoad(ErrOr(RWKV_ERROR_MODEL_PARAMS, RWKV_ERROR_PARAM_MISSING)),
                 "open", Ref("file"), NULL, NULL)
          EXCEPT !.phases = Phases("plan_pass")]
    ELSE IF fail = "scratch" \/ fail = "ggml_init"
    THEN [Return(NoLoad(ErrOr(RWKV_ERROR_CTX, RWKV_ERROR_ALLOC)),
                 "open", Ref("file"), NULL, NULL)
          EXCEPT !.phases = Phases(IF fail = "scratch" THEN "new_scratch"
                                   ELSE "ggml_init")]
    ELSE Bind(ReadPass(file, h.pos, << >>), LAMBDA read :
        IF ~read.ok
        THEN [Return(NoLoad(read.err), "open", Ref("file"), ggml_init, Ref("ctx"))
              EXCEPT !.phases = Phases("read_pass")]
        ELSE Bind(InitModel(h.val, read.parameters, fail, junk), LAMBDA r :
            [Return(r, "open", ResetFileGuard(Ref("file")), ggml_init,
                    IF r.ctx = NULL THEN Ref("ctx") ELSE DisarmGgmlGuard(Ref("ctx")))
             EXCEPT !.planned = plan.ffn_key, !.phases = Phases(r.step)]))

InitFromFile(file, fail, junk) ==
    IF fail = "fopen"
    THEN Return(NoLoad(ErrOr(RWKV_ERROR_FILE, RWKV_ERROR_FILE_OPEN)), "none", NULL, NULL, NULL)
    ELSE IF fail = "fstat"
    THEN Return(NoLoad(ErrOr(RWKV_ERROR_FILE, RWKV_ERROR_FILE_STAT)),
                "open", Ref("file"), NULL, NULL)
    ELSE Bind(fread_file_header(file, 0, TRUE), LAMBDA h :
        IF ~h.ok
        THEN Return(NoLoad(ErrOr(h.err, RWKV_ERROR_FILE)), "open", Ref("file"), NULL, NULL)
        ELSE Bind(PlanPass(file, h.pos, 0), LAMBDA plan :
            LoadAfterPlan(file, h, plan, fail, junk)))

\* rwkv_free: ggml_free of the context's arena, then the unique_ptr deletes
\* the context and with it the scratch buffer it owns.
Free(ctx) == [arena |-> ggml_free(ctx.ctx), scratch |-> "freed"]

(***************************************************************************)
(* The evaluator.                                                          *)
(***************************************************************************)
\* The two argument checks of rwkv_eval, in order: the kinds or-ed into the
\* context's word by the first that fails.
EvalArgsError(header, token, state_out) ==
    IF ~(state_out # NULL) THEN RWKV_ERROR_ARGS
    ELSE IF ~(token < header.n_vocab) THEN RWKV_ERROR_ARGS
    ELSE RWKV_ERROR_NONE

\* state_in == NULL: ggml_set_f32(input_state, 0.0F), then -1e30f over every
\* layer's elements [n_embed * (layer * 5 + 4), + n_embed)
RECURSIVE FillLayers(_, _, _)
FillLayers(data, header, layer) ==
    IF layer >= header.n_layer THEN data
    ELSE Bind2(data, header.n_embed * (layer * 5 + 4), LAMBDA dv, cur :
             Bind(Vec([i \in 1..Len(dv) |->
                          IF cur < i /\ i <= cur + header.n_embed THEN -FloatMax
                          ELSE dv[i]]),
                  LAMBDA filled : FillLayers(filled, header, layer + 1)))

\* A fresh state that is zero everywhere
FreshInputState_ZeroOnly(input_state, header) == Vec([i \in 1..Len(input_state) |-> 0])

FreshInputState(input_state, header) ==
    FillLayers(Vec([i \in 1..Len(input_state) |-> 0]), header, 0)

\* memcpy(input_state->data, state_in, ggml_nbytes(input_state))
CopyInState(input_state, state_in) == Vec([i \in 1..Len(input_state) |-> state_in[i]])

\* memcpy(dest + offset, part, ggml_nbytes(part)), within dest
WriteAt(dest, offset, part) ==
    Bind2(dest, part, LAMBDA dv, pv :
        Vec([i \in 1..Len(dv) |->
                IF offset < i /\ i <= offset + Len(pv) THEN pv[i - offset] ELSE dv[i]]))

\* The loop that copies the n_layer * 5 output parts to state_out
RECURSIVE CopyOutState(_, _, _, _)
CopyOutState(state_out, header, output_state, i) ==
    IF i >= header.n_layer * 5 THEN state_out
    ELSE Bind(WriteAt(state_out, i * header.n_embed, output_state[i + 1]), LAMBDA written :
             CopyOutState(written, header, output_state, i + 1))

\* An entry that leaves the context's word as it finds it
EvalEntry_KeepsWord(ctx) == ctx

\* The first statement of rwkv_eval: the context's word is cleared
EvalEntry(ctx) == [ctx EXCEPT !.last_error = RWKV_ERROR_NONE]

\* An input that is left as the evaluation before left it when state_in is
\* null
EvalInput_Stale(ctx, state_in) ==
    IF state_in = NULL THEN ctx.graph.input_state
    ELSE CopyInState(ctx.graph.input_state, state_in.data)

\* The input state rwkv_eval leaves in the graph before it is computed
EvalInput(ctx, state_in) ==
    IF state_in = NULL
    THEN FreshInputState(ctx.graph.input_state, ctx.model.header)
    ELSE CopyInState(ctx.graph.input_state, state_in.data)

\* A rejection that comes after the token has been stored in its tensor
EvalRejected_TokenStored(c, tok, why) ==
    [c EXCEPT !.last_error = ErrOr(EvalEntry(c).last_error, why),
              !.graph.token_index = tok]

\* The context a rejected rwkv_eval leaves: its word was reset on entry and
\* the kind of the failed check is or-ed in; the call returns before it
\* touches the graph.
EvalRejected(ctx, token, err) ==
    [ctx EXCEPT !.last_error = ErrOr(EvalEntry(ctx).last_error, err)]

\* rwkv_eval on a context and the caller's pointers: the result, the
\* context after the call, and the contents of the caller's state_out and
\* logits buffers after it.
Eval(ctx, token, state_in, state_out, logits_out) ==
    IF EvalArgsError(ctx.model.header, token, state_out) # RWKV_ERROR_NONE
    THEN [ret |-> FALSE,
          ctx |-> EvalRejected(ctx, token,
                               EvalArgsError(ctx.model.header, token, state_out)),
          state_out |-> state_out, logits_out |-> logits_out]
    ELSE Bind(EvalInput(ctx, state_in), LAMBDA input :
         Bind(rwkv_single_graph(ctx.model, input, token), LAMBDA out :
            [ret |-> TRUE,
             ctx |-> [null |-> FALSE, model |-> ctx.model,
                      graph |-> [input_state |-> input, token_index |-> token,
                                 output_state |-> out.output_state,
                                 logits |-> out.logits],
                      last_error |-> EvalEntry(ctx).last_error,
                      ctx |-> ctx.ctx, scratch |-> ctx.scratch],
             state_out |-> Ref(CopyOutState(state_out.data, ctx.model.header,
                                            out.output_state, 0)),
             logits_out |-> IF logits_out # NULL
                            THEN Ref(WriteAt(logits_out.data, 0, out.logits))
                            ELSE logits_out]))

(***************************************************************************)
(* Element counts.  A count that may not fit in 32 bits is held as two     *)
(* 16-bit halves, hi * 2^16 + lo, and computed without loss; uint32_t      *)
(* arithmetic keeps the low 32 bits.                                       *)
(***************************************************************************)
HALF == 65536

Wide(x) == [hi |-> x \div HALF, lo |-> x % HALF]

WAdd(x, y) ==
    [hi |-> x.hi + y.hi + ((x.lo + y.lo) \div HALF), lo |-> (x.lo + y.lo) % HALF]

\* the wide x times the natural k
RECURSIVE WMul(_, _)
WMul(x, k) ==
    IF k = 0 THEN Wide(0)
    ELSE Bind2(x, WAdd(x, x), LAMBDA xv, twice :
             Bind(WMul(twice, k \div 2), LAMBDA h :
                 IF k % 2 = 1 THEN WAdd(h, xv) ELSE h))

\* the value as a uint32_t
U32(x) == [hi |-> x.hi % HALF, lo |-> x.lo]

\* uint32_t rwkv_get_state_buffer_element_count:
\* header.n_layer * 5 * header.n_embed on uint32_t operands
rwkv_get_state_buffer_element_count(header) ==
    U32(WMul(U32(WMul(Wide(header.n_layer), 5)), header.n_embed))

rwkv_get_logits_buffer_element_count(header) == Wide(header.n_vocab)

\* The number of elements of the input-state tensor, which rwkv_eval reads
\* from state_in: size_t n_layer * 5 * n_embed in rwkv_single_graph
InputStateElements(header) == WMul(WMul(Wide(header.n_layer), 5), header.n_embed)

\* One past the last element of state_out that rwkv_eval writes: part i, for
\* size_t i < header.n_layer * 5 (a uint32_t product), goes to
\* state_out + i * header.n_embed and is n_embed elements long
StateOutExtent(header) == WMul(U32(WMul(Wide(header.n_layer), 5)), header.n_embed)

\* The number of elements of the logits tensor, which rwkv_eval writes to
\* logits_out: the height of head.weight, n_vocab in a well-formed model
LogitsExtent(header) == Wide(header.n_vocab)

ToInt(x) == x.hi * HALF + x.lo

\* A read that addresses the thread's word whatever the context
LastErrorPtr_AlwaysGlobal(c) == "global"

\* The word rwkv_get_last_error addresses: the context's, or the calling
\* thread's when the context is null (slot 0)
LastErrorPtr(c) == IF c # 0 THEN "ctx" ELSE "global"

\* A read that returns the word and leaves it
GetLastError_Keeps(word) == [value |-> word, word |-> word]

\* rwkv_get_last_error on a word: the value returned and the word after
GetLastError(word) == [value |-> word, word |-> RWKV_ERROR_NONE]

(***************************************************************************)
(* The quantizer.  The file it writes is the sequence of the fields it     *)
(* wrote, a tensor header of two dimensions counting as its first four     *)
(* words and its height.                                                   *)
(***************************************************************************)
\* The backend's conversions, which the library only calls: half to single
\* precision is exact, quantization rounds.
ggml_fp16_to_fp32_row(data) == data
ggml_quantize_chunk(g, data) == Map1(data, LAMBDA p : 2 * (p \div 2))

\* fwrite(data, length, 1, file) == 1, as call number n of the run when call
\* number wfail is the one the system fails
fwrite_data(out, field, n, wfail) ==
    IF field.len = 0 \/ n = wfail THEN [ok |-> FALSE, out |-> out]
    ELSE [ok |-> TRUE, out |-> Append(out, field)]

\* A tensor header written without the height, whatever the dimensions
fwrite_tensor_header_NoHeight(fields, h, k, fail_at) ==
    IF k = fail_at THEN [ok |-> FALSE, out |-> fields]
    ELSE [ok |-> TRUE,
          out |-> Append(fields, [len |-> SIZEOF_TENSOR_HEADER - SIZEOF_U32,
                                  val |-> [dim_count |-> h.dim_count,
                                           key_length |-> h.key_length,
                                           data_type |-> h.data_type,
                                           width |-> h.width]])]

\* fwrite_tensor_header: the height is written with the header when the
\* record has two dimensions
fwrite_tensor_header(out, header, n, wfail) ==
    IF n = wfail THEN [ok |-> FALSE, out |-> out]
    ELSE [ok |-> TRUE,
          out |-> out
                  \o << [len |-> SIZEOF_TENSOR_HEADER - SIZEOF_U32,
                         val |-> [dim_count |-> header.dim_count,
                                  key_length |-> header.key_length,
                                  data_type |-> header.data_type,
                                  width |-> header.width]] >>
                  \o (IF header.dim_count = 1 THEN << >>
                      ELSE << [len |-> SIZEOF_U32, val |-> header.height] >>)]

\* The state of the loop of rwkv_quantize_model_file after a turn
QuantizeStop(s, err, out) ==
    [ok |-> FALSE, err |-> err, pos |-> s.pos, done |-> TRUE, out |-> out,
     writes |-> s.writes]

\* A policy that converts every matrix of a source type
QuantizeChosen_AnyMatrix(h, key) ==
    /\ (h.data_type = TYPE_F32 \/ h.data_type = TYPE_F16)
    /\ h.dim_count = 2
    /\ Len(key) > 0

\* Whether the quantizer converts a record
QuantizeChosen(header, name) ==
    /\ (header.data_type = TYPE_F32 \/ header.data_type = TYPE_F16)
    /\ header.dim_count = 2
    /\ name # "emb.weight" /\ name # "head.weight"

\* The three writes of a turn: the header, the key and the payload
QuantizeWrites(file, s, header, name, payload, pos, wfail) ==
    Bind(fwrite_tensor_header(s.out, header, s.writes + 1, wfail), LAMBDA w1 :
        IF ~w1.ok THEN QuantizeStop(s, RWKV_ERROR_FILE_WRITE, w1.out)
        ELSE Bind(fwrite_data(w1.out, [len |-> Len(name), val |-> name], s.writes + 2, wfail),
                  LAMBDA w2 :
            IF ~w2.ok THEN QuantizeStop(s, RWKV_ERROR_FILE_WRITE, w2.out)
            ELSE Bind(fwrite_data(w2.out, [len |-> tensor_bytes_of(header), val |-> payload],
                                  s.writes + 3, wfail),
                      LAMBDA w3 :
                IF ~w3.ok THEN QuantizeStop(s, RWKV_ERROR_FILE_WRITE, w3.out)
                ELSE [ok |-> TRUE, err |-> RWKV_ERROR_NONE, pos |-> pos,
                      done |-> ~(pos < file.size), out |-> w3.out,
                      writes |-> s.writes + 3])))

\* One turn of the loop of rwkv_quantize_model_file
QuantizeStep(file, s, target_type, wfail) ==
    Bind(fread_tensor_header(file, s.pos), LAMBDA h :
        IF ~h.ok THEN QuantizeStop(s, ErrOr(h.err, RWKV_ERROR_MODEL_PARAMS), s.out)
        ELSE Bind(fread_data(file, h.pos, h.val.key_length), LAMBDA name :
            IF ~name.ok THEN QuantizeStop(s, RWKV_ERROR_KEY, s.out)
            ELSE Bind(fread_data(file, name.pos, tensor_bytes_of(h.val)), LAMBDA data :
                IF ~data.ok THEN QuantizeStop(s, RWKV_ERROR_DATA, s.out)
                ELSE IF QuantizeChosen(h.val, name.val)
                THEN QuantizeWrites(file, s, [h.val EXCEPT !.data_type = target_type],
                                    name.val,
                                    ggml_quantize_chunk(type_to_ggml(target_type),
                                        IF h.val.data_type = TYPE_F16
                                        THEN ggml_fp16_to_fp32_row(data.val)
                                        ELSE data.val),
                                    data.pos, wfail)
                ELSE QuantizeWrites(file, s, h.val, name.val, data.val, data.pos, wfail))))

RECURSIVE QuantizeLoop(_, _, _, _, _)
QuantizeLoop(file, s, target_type, wfail, n) ==
    IF n = 0 \/ s.done THEN s
    ELSE IF n = 1 THEN QuantizeStep(file, s, target_type, wfail)
    ELSE Bind(QuantizeLoop(file, s, target_type, wfail, n \div 2), LAMBDA half :
             QuantizeLoop(file, half, target_type, wfail, n - (n \div 2)))

\* What can fail around the contents of the input: the system calls of
\* rwkv_quantize_model_file, in the order they are made.
QuantizeFailures == {"none", "fopen_input", "fstat", "fopen_output", "fwrite"}

\* The file at the output path, or none
NoFile == [exists |-> FALSE]
Written(fields) == [exists |-> TRUE, fields |-> fields]

NoQuantize(err, out) == [ret |-> FALSE, err |-> err, output |-> out]

\* An output header that keeps the version of the input
OutputHeader_KeepsVersion(h, type) == [h EXCEPT !.data_type = type]

\* The header the quantizer writes: that of the input with the version and
\* the type replaced
OutputHeader(header, target_type) ==
    [header EXCEPT !.version = RWKV_FILE_VERSION, !.data_type = target_type]

\* rwkv_quantize_model_file once both files are open
QuantizeFile(file, target_type, wfail) ==
    Bind(fread_file_header(file, 0, TRUE), LAMBDA h :
        IF ~h.ok THEN NoQuantize(ErrOr(h.err, RWKV_ERROR_FILE), Written(<< >>))
        ELSE IF ~(h.val.data_type = TYPE_F32 \/ h.val.data_type = TYPE_F16)
        THEN NoQuantize(RWKV_ERROR_FILE, Written(<< >>))
        ELSE Bind(fwrite_data(<< >>,
                              [len |-> SIZEOF_FILE_HEADER,
                               val |-> OutputHeader(h.val, target_type)],
                              1, wfail), LAMBDA w0 :
            IF ~w0.ok
            THEN NoQuantize(ErrOr(RWKV_ERROR_FILE_WRITE, RWKV_ERROR_FILE), Written(w0.out))
            ELSE Bind([ok |-> TRUE, err |-> RWKV_ERROR_NONE, pos |-> h.pos,
                       done |-> ~(h.pos < file.size), out |-> w0.out, writes |-> 1],
                      LAMBDA s :
                Bind(QuantizeLoop(file, s, target_type, wfail, LoopBound(file)),
                     LAMBDA loop :
                    IF ~loop.ok THEN NoQuantize(loop.err, Written(loop.out))
                    ELSE [ret |-> TRUE, err |-> RWKV_ERROR_NONE,
                          output |-> Written(loop.out)]))))

\* A result of rwkv_quantize_model_file with the paths the call had opened
\* when it returned, the handle of each after the destructor of the guard
\* that holds it, and the backend type it read from type_to_ggml
Opened(r, paths, target_ggml) ==
    [ret |-> r.ret, err |-> r.err, output |-> r.output, opened |-> paths,
     handles |-> [p \in paths |-> rwkv_file_guard(Ref(p), "open")],
     target_ggml |-> target_ggml]

\* rwkv_quantize_model_file from its first statement on: the result, the
\* kinds it or-s into the thread's error word, and the file at the output
\* path after the call (before is the file there before it).
Quantize(file, before, target_name, fail, wfail) ==
    Bind(type_from_string(target_name), LAMBDA target_type :
    Bind(type_to_ggml(target_type), LAMBDA target_ggml :
        IF ~(target_type # TYPE_UNKNOWN)
        THEN Opened(NoQuantize(ErrOr(RWKV_ERROR_ARGS, RWKV_ERROR_DATA_TYPE), before),
                    {}, target_ggml)
        ELSE IF ~(target_ggml # GGML_TYPE_UNKNOWN)
        THEN Opened(NoQuantize(ErrOr(RWKV_ERROR_ARGS, RWKV_ERROR_DATA_TYPE), before),
                    {}, target_ggml)
        ELSE IF fail = "fopen_input"
        THEN Opened(NoQuantize(ErrOr(RWKV_ERROR_FILE, RWKV_ERROR_FILE_OPEN), before),
                    {}, target_ggml)
        ELSE IF fail = "fstat"
        THEN Opened(NoQuantize(ErrOr(RWKV_ERROR_FILE, RWKV_ERROR_FILE_STAT), before),
                    {"input"}, target_ggml)
        ELSE IF fail = "fopen_output"
        THEN Opened(NoQuantize(ErrOr(RWKV_ERROR_FILE, RWKV_ERROR_FILE_OPEN), before),
                    {"input"}, target_ggml)
        ELSE Opened(QuantizeFile(file, target_type, wfail), {"input", "output"},
                    target_ggml)))

(***************************************************************************)
(* The files of the specifications.                                        *)
(***************************************************************************)
BAD_MAGIC == RWKV_FILE_MAGIC + 1

\* A well-formed model file: the ffn layer is one wider than the embedding.
Model(n_vocab, n_embed, n_layer, data_type, version) ==
    [magic |-> RWKV_FILE_MAGIC, version |-> version, n_vocab |-> n_vocab,
     n_embed |-> n_embed, n_layer |-> n_layer, data_type |-> data_type,
     ffn |-> n_embed + 1, seed |-> 0, rec |-> 0, rec_dim |-> 0, rec_type |-> 0, cut |-> 0,
     ffn_rest |-> n_embed + 1, alt |-> 0, alt_w |-> 0, alt_h |-> 0, drop |-> 0]

SmallModel == Model(MaxVocab, MaxEmbed, 1, TYPE_F32, RWKV_FILE_VERSION_0)
DeepModel == Model(MaxVocab, MaxEmbed, MaxLayer, TYPE_F16, RWKV_FILE_VERSION_1)

\* What uninitialised memory may hold.
JunkVals == {0, 3}

\* The tokens a caller passes: those of the vocabulary and one past them
Tokens == 0..MaxVocab

(***************************************************************************)
(* The API calls and the caller's own steps.  last describes the most      *)
(* recent API call: its arguments, its result, and the error words as they *)
(* were when it was made.  evlog keeps, for a context, the model as it was *)
(* loaded and the most recent accepted evaluation.                         *)
(***************************************************************************)
\* The last-error word of every context that exists
CtxWords == [c \in CtxIds |-> IF ctxs[c] = NULL THEN NULL ELSE Ref(ctxs[c].last_error)]

\* The state before any call, with the number of calls of each kind that
\* the run may make
InitWith(loads, evals, quantizes, reads) ==
    /\ ctxs = [c \in CtxIds |-> NULL]
    /\ global_last_error = [t \in Threads |-> RWKV_ERROR_NONE]
    /\ bufs = [c \in CtxIds |-> NULL]
    /\ output = NoFile
    /\ evlog = [c \in CtxIds |-> NULL]
    /\ last = [op |-> "none"]
    /\ budget = [loads |-> loads, evals |-> evals, quantizes |-> quantizes, reads |-> reads]
    /\ decoy = DecoyInit
    /\ frames = [t \in Threads |-> NoFrame]

\* ctx = rwkv_init_from_file(path of d, n_threads), called by thread t; the
\* caller keeps a context it gets in its slot c
rwkv_init_from_file(t, c, d, fail, junk) ==
    /\ budget.loads > 0
    /\ \E file \in {FileOf(d)} : \E r \in {InitFromFile(file, fail, junk)} :
           /\ ctxs[c] = NULL \/ r.ctx = NULL
           /\ ctxs' = IF r.ctx = NULL THEN ctxs ELSE [ctxs EXCEPT ![c] = r.ctx]
           /\ global_last_error' =
                  [global_last_error EXCEPT ![t] = ErrOr(RWKV_ERROR_NONE, r.err)]
           /\ evlog' = IF r.ctx = NULL THEN evlog
                       ELSE [evlog EXCEPT ![c] = [null |-> FALSE, d |-> d,
                                                  model |-> r.ctx.model, accepted |-> 0,
                                                  call |-> NULL, planned |-> r.planned]]
           /\ last' = [op |-> "init_from_file", t |-> t, c |-> c, d |-> d, fail |-> fail,
                       ret |-> r.ctx # NULL, globals |-> global_last_error,
                       words |-> CtxWords, planned |-> r.planned, file |-> r.file,
                       arena |-> r.arena, phases |-> r.phases]
    /\ budget' = [budget EXCEPT !.loads = @ - 1]
    /\ UNCHANGED <<bufs, output, decoy, frames>>

\* rwkv_quantize_model_file(path of d, the output path, target_name), called
\* by thread t
rwkv_quantize_model_file(t, d, target_name, fail, wfail) ==
    /\ budget.quantizes > 0
    /\ \E file \in {FileOf(d)} : \E r \in {Quantize(file, output, target_name, fail, wfail)} :
           /\ output' = r.output
           /\ global_last_error' =
                  [global_last_error EXCEPT ![t] = ErrOr(RWKV_ERROR_NONE, r.err)]
           /\ last' = [op |-> "quantize_model_file", t |-> t, d |-> d,
                       target_name |-> target_name, fail |-> fail, wfail |-> wfail,
                       ret |-> r.ret, globals |-> global_last_error, words |-> CtxWords,
                       before |-> output, opened |-> r.opened, handles |-> r.handles,
                       target_ggml |-> r.target_ggml]
    /\ budget' = [budget EXCEPT !.quantizes = @ - 1]
    /\ UNCHANGED <<ctxs, bufs, evlog, decoy, frames>>

\* The caller allocates its buffers for the context in slot c, sized by the
\* two getters (tests/test_tiny_rwkv.c): its state buffers and one for logits.
CallerAlloc(c, junk) ==
    /\ ctxs[c] # NULL
    /\ bufs[c] = NULL
    /\ \E n_state \in {ToInt(rwkv_get_state_buffer_element_count(ctxs[c].model.header))},
          n_logits \in {ToInt(rwkv_get_logits_buffer_element_count(ctxs[c].model.header))} :
           bufs' = [bufs EXCEPT ![c] =
                        [null |-> FALSE,
                         state |-> [b \in BufIds |-> Vec([i \in 1..n_state |-> junk])],
                         logits |-> Vec([i \in 1..n_logits |-> junk])]]
    /\ UNCHANGED <<ctxs, global_last_error, output, evlog, last, budget, decoy, frames>>

\* The state a caller builds by hand to start a sequence: all zero, and
\* -1e30 over each layer's att_pp slice.
ExplicitFresh(header) ==
    Vec([i \in 1..(header.n_layer * 5 * header.n_embed) |->
            IF ((i - 1) \div header.n_embed) % 5 = 4 THEN -FloatMax ELSE 0])

CallerFreshState(c, b) ==
    /\ bufs[c] # NULL
    /\ \E fresh \in {ExplicitFresh(ctxs[c].model.header)} :
           /\ bufs[c].state[b] # fresh
           /\ bufs' = [bufs EXCEPT ![c].state[b] = fresh]
    /\ UNCHANGED <<ctxs, global_last_error, output, evlog, last, budget, decoy, frames>>

\* A call that clears state_out before it reads state_in
ReadStateIn_OutCleared(mem, from, to) ==
    IF from = 0 THEN NULL
    ELSE IF from = to THEN Ref(Vec([i \in 1..Len(mem.state[from]) |-> 0]))
    ELSE Ref(mem.state[from])

\* What the memcpy from state_in reads: the caller's buffer as the call
\* found it, also when state_out is the same buffer, for nothing is written
\* to state_out before the graph has been computed
ReadStateIn(B, sin, sout) == IF sin = 0 THEN NULL ELSE Ref(B.state[sin])

\* rwkv_eval(ctx of slot c, token, state_in, state_out, logits_out); a
\* buffer is named by its index, 0 for a null pointer
rwkv_eval(c, token, sin, sout, lout) ==
    /\ budget.evals > 0
    /\ ctxs[c] # NULL
    /\ bufs[c] # NULL
    /\ \E B \in {bufs[c]} :
       \E pin \in {ReadStateIn(B, sin, sout)},
          pout \in {IF sout = 0 THEN NULL ELSE Ref(B.state[sout])},
          plog \in {IF lout THEN Ref(B.logits) ELSE NULL} :
       \E r \in {Eval(ctxs[c], token, pin, pout, plog)} :
           /\ ctxs' = [ctxs EXCEPT ![c] = r.ctx]
           /\ bufs' = [bufs EXCEPT ![c] =
                          [null |-> FALSE,
                           state |-> IF sout = 0 THEN B.state
                                     ELSE [B.state EXCEPT ![sout] = r.state_out.data],
                           logits |-> IF lout THEN r.logits_out.data ELSE B.logits]]
           /\ evlog' = IF r.ret
                       THEN [evlog EXCEPT ![c].accepted = Min(@ + 1, 2),
                                          ![c].call =
                                              [null |-> FALSE, token |-> token,
                                               state_in |-> pin,
                                               state_out |-> r.state_out.data,
                                               logits_out |-> r.logits_out]]
                       ELSE evlog
           /\ last' = [op |-> "eval", c |-> c, token |-> token, state_in |-> sin,
                       state_out |-> sout, logits_out |-> lout, ret |-> r.ret,
                       globals |-> global_last_error, words |-> CtxWords]
    /\ budget' = [budget EXCEPT !.evals = @ - 1]
    /\ UNCHANGED <<global_last_error, output, decoy, frames>>

\* rwkv_get_last_error(ctx of slot c), or rwkv_get_last_error(NULL) for
\* c = 0, by thread t; again tells that the call before was the same call,
\* and first what that call returned
rwkv_get_last_error(t, c) ==
    /\ budget.reads > 0
    /\ c # 0 => ctxs[c] # NULL
    /\ \E ptr \in {LastErrorPtr(c)},
          again \in {last.op = "get_last_error" /\ last.t = t /\ last.c = c} :
       \E r \in {GetLastError(IF ptr = "global" THEN global_last_error[t]
                              ELSE ctxs[c].last_error)} :
           /\ ctxs' = IF ptr = "global" THEN ctxs
                      ELSE [ctxs EXCEPT ![c].last_error = r.word]
           /\ global_last_error' = IF ptr = "global"
                                   THEN [global_last_error EXCEPT ![t] = r.word]
                                   ELSE global_last_error
           /\ last' = [op |-> "get_last_error", t |-> t, c |-> c, ret |-> r.value,
                       again |-> again,
                       first |-> IF again THEN last.ret ELSE RWKV_ERROR_NONE,
                       globals |-> global_last_error, words |-> CtxWords]
    /\ budget' = [budget EXCEPT !.reads = @ - 1]
    /\ UNCHANGED <<bufs, output, evlog, decoy, frames>>

\* rwkv_free(ctx of slot c); the caller frees its buffers with it
rwkv_free(c) ==
    /\ ctxs[c] # NULL
    /\ ctxs' = [ctxs EXCEPT ![c] = NULL]
    /\ bufs' = [bufs EXCEPT ![c] = NULL]
    /\ evlog' = [evlog EXCEPT ![c] = NULL]
    /\ \E r \in {Free(ctxs[c])} :
           last' = [op |-> "free", c |-> c, globals |-> global_last_error,
                    words |-> CtxWords, arena |-> r.arena, scratch |-> r.scratch]
    /\ UNCHANGED <<global_last_error, output, budget, decoy, frames>>

(***************************************************************************)
(* Evaluation: a caller loads a model, allocates its buffers and evaluates *)
(* tokens, with every combination of pointers.                             *)
(***************************************************************************)
Init == InitWith(EvalLoads, MaxEvals, 0, MaxReads)

Next ==
    \/ \E c \in CtxIds, d \in {SmallModel, DeepModel}, junk \in JunkVals :
           rwkv_init_from_file(1, c, d, "none", junk)
    \/ \E c \in CtxIds, junk \in JunkVals : CallerAlloc(c, junk)
    \/ \E c \in CtxIds, b \in BufIds : CallerFreshState(c, b)
    \/ \E c \in CtxIds, token \in Tokens, sin \in {0} \cup BufIds,
          sout \in {0} \cup BufIds, lout \in BOOLEAN :
           rwkv_eval(c, token, sin, sout, lout)
    \/ \E c \in CtxIds : rwkv_get_last_error(1, c)
    \/ \E c \in CtxIds : rwkv_free(c)

Spec == Init /\ [][Next]_vars

(***************************************************************************)
(* Properties of evaluation (specification Spec).                          *)
(***************************************************************************)
\* The contexts with an accepted evaluation on record
Evaluated == {c \in CtxIds : evlog[c] # NULL /\ evlog[c].call # NULL}

\* C1: rwkv_eval returns false exactly when state_out is null or the token
\* is not below n_vocab, and on return the context's last-error word is ARGS
\* when it returned false and NONE when it returned true, whatever the word
\* held before the call.
C1_EvalArgs ==
    last.op = "eval" =>
        \E rejected \in {last.state_out = 0
                         \/ last.token >= ctxs[last.c].model.header.n_vocab} :
            /\ last.ret = ~rejected
            /\ ctxs[last.c].last_error =
                   (IF rejected THEN RWKV_ERROR_ARGS ELSE RWKV_ERROR_NONE)

\* An accepted evaluation on a context whose word held ARGS when it was called
C1_Witness ==
    /\ last.op = "eval" /\ last.ret
    /\ last.words[last.c] = Ref(RWKV_ERROR_ARGS)
    /\ ctxs[last.c].last_error = RWKV_ERROR_NONE

\* C4: an evaluation with state_in = NULL leaves in the input-state tensor,
\* in state_out and in the logits what the same evaluation leaves there when
\* it is given the state that is zero everywhere but -1e30 over each
\* layer's att_pp part.
C4_FreshStateEquivalence ==
    \A c \in Evaluated :
        evlog[c].call.state_in = NULL =>
            \E call \in {evlog[c].call} :
            \E r \in {Eval(ctxs[c], call.token, Ref(ExplicitFresh(ctxs[c].model.header)),
                           Ref(Vec([i \in 1..Len(call.state_out) |-> FloatMax])),
                           call.logits_out)} :
                /\ r.ret
                /\ r.ctx.graph.input_state = ctxs[c].graph.input_state
                /\ r.state_out.data = call.state_out
                /\ r.logits_out = call.logits_out
                /\ r.ctx.graph.logits = ctxs[c].graph.logits

\* An accepted evaluation of the two-layer model with state_in = NULL, on a
\* context whose input-state tensor held something else before
C4_Witness ==
    \E c \in Evaluated :
        /\ evlog[c].call.state_in = NULL
        /\ ctxs[c].model.header.n_layer = MaxLayer
        /\ evlog[c].accepted >= 2
        /\ last.op = "eval" /\ last.ret

\* The parts of an output state, one after the other
RECURSIVE Flatten(_, _)
Flatten(parts, i) == IF i > Len(parts) THEN << >> ELSE parts[i] \o Flatten(parts, i + 1)

\* C5: what an accepted evaluation writes to state_out and to the logits is
\* what the graph computes from the model as it was loaded, the token and
\* the effective input state alone (state_in, or the fresh state when it is
\* null), however many evaluations the context has served; and the model of
\* the context is the model as it was loaded.
C5_HistoryIndependence ==
    \A c \in Evaluated :
        \E call \in {evlog[c].call} :
        \E input \in {IF call.state_in = NULL THEN ExplicitFresh(evlog[c].model.header)
                      ELSE call.state_in.data} :
        \E out \in {rwkv_single_graph(evlog[c].model, input, call.token)} :
            /\ call.state_out = Flatten(out.output_state, 1)
            /\ call.logits_out # NULL => call.logits_out.data = out.logits
            /\ ctxs[c].model = evlog[c].model

\* A second accepted evaluation on a context, its state_in being NULL while
\* the tensor still held the input of the first
C5_Witness ==
    \E c \in Evaluated :
        /\ evlog[c].accepted >= 2
        /\ evlog[c].call.state_in = NULL
        /\ last.op = "eval" /\ last.ret /\ last.logits_out

\* Elements [(5L + k) * n, (5L + k + 1) * n) of a state, from 0
Part(s, L, k, n) == SubSeq(s, (5 * L + k) * n + 1, (5 * L + k + 1) * n)

\* Layer L of the model with its five parts of the state s as its state
LayerOf(model, s, L) ==
    [model.layers[L + 1] EXCEPT
        !.ffn_xx = Part(s, L, 0, model.header.n_embed),
        !.att_xx = Part(s, L, 1, model.header.n_embed),
        !.att_aa = Part(s, L, 2, model.header.n_embed),
        !.att_bb = Part(s, L, 3, model.header.n_embed),
        !.att_pp = Part(s, L, 4, model.header.n_embed)]

\* The recurrence: x after layers 0..L - 1, and the next parts of layer L - 1
RECURSIVE Recurrence(_, _, _, _)
Recurrence(model, s, token, L) ==
    IF L = 0
    THEN [x |-> rwkv_layer_norm(ggml_get_rows(model.emb, token),
                                model.ln0_weight, model.ln0_bias),
          next |-> << >>]
    ELSE Bind(Recurrence(model, s, token, L - 1), LAMBDA before :
         Bind(LayerOf(model, s, L - 1), LAMBDA layer :
         Bind(rwkv_single_att(before.x, layer), LAMBDA att :
         Bind(rwkv_single_ffn(att.x, att.layer), LAMBDA ffn :
             [x |-> ffn.x,
              next |-> <<ffn.layer.ffn_xx, ffn.layer.att_xx, ffn.layer.att_aa,
                         ffn.layer.att_bb, ffn.layer.att_pp>>]))))

\* The element ranges of the parts of a state, from 1
PartRange(L, k, n) == ((5 * L + k) * n + 1)..((5 * L + k + 1) * n)

\* C6: part k of layer L that the graph reads is elements
\* [(5L + k) * n_embed, (5L + k + 1) * n_embed) of the input state, and its
\* next value is written to the same elements of state_out, in the order
\* ffn_xx, att_xx, att_aa, att_bb, att_pp; the n_layer * 5 ranges are
\* pairwise disjoint and cover the n_layer * 5 * n_embed elements.
C6_StateLayout ==
    \A c \in Evaluated :
        \E model \in {ctxs[c].model}, s \in {ctxs[c].graph.input_state},
           call \in {evlog[c].call} :
        \E n \in {model.header.n_embed}, layers \in {0..(model.header.n_layer - 1)} :
            /\ \A L \in layers :
                   \E step \in {Recurrence(model, s, call.token, L + 1)} :
                       \A k \in 0..4 : Part(call.state_out, L, k, n) = step.next[k + 1]
            /\ \A L1, L2 \in layers, k1, k2 \in 0..4 :
                   <<L1, k1>> # <<L2, k2>>
                       => PartRange(L1, k1, n) \cap PartRange(L2, k2, n) = {}
            /\ UNION {PartRange(L, k, n) : L \in layers, k \in 0..4}
                   = 1..(model.header.n_layer * 5 * n)
            /\ Len(call.state_out) = model.header.n_layer * 5 * n
            /\ Len(s) = model.header.n_layer * 5 * n

\* An accepted evaluation of the two-layer model after an earlier one, its
\* state_in given and not the fresh state
C6_Witness ==
    \E c \in Evaluated :
        /\ ctxs[c].model.header.n_layer = MaxLayer
        /\ evlog[c].accepted >= 2
        /\ evlog[c].call.state_in # NULL
        /\ evlog[c].call.state_in.data # ExplicitFresh(ctxs[c].model.header)
        /\ last.op = "eval" /\ last.ret /\ ~last.logits_out

(***************************************************************************)
(* Error words: two threads load, quantize, evaluate and read the words.   *)
(***************************************************************************)
\* The target names a caller of the quantizer passes
ErrorTargets == {"Q5_1", "Q4_2", "q"}

InitErrors == InitWith(MaxLoads, 1, MaxQuantizes, MaxReads)

NextErrors ==
    \/ \E t \in Threads, c \in CtxIds,
          d \in {SmallModel, [SmallModel EXCEPT !.magic = BAD_MAGIC]} :
           rwkv_init_from_file(t, c, d, "none", 0)
    \/ \E t \in Threads, c \in CtxIds : rwkv_init_from_file(t, c, SmallModel, "fopen", 0)
    \/ \E t \in Threads, target_name \in ErrorTargets :
           rwkv_quantize_model_file(t, SmallModel, target_name, "none", 0)
    \/ \E t \in Threads : rwkv_quantize_model_file(t, SmallModel, "Q5_1", "fstat", 0)
    \/ \E c \in CtxIds : CallerAlloc(c, 0)
    \/ \E c \in CtxIds, token \in {0, MaxVocab}, sout \in {0} \cup BufIds :
           rwkv_eval(c, token, 0, sout, FALSE)
    \/ \E t \in Threads, c \in {0} \cup CtxIds : rwkv_get_last_error(t, c)
    \/ \E c \in CtxIds : rwkv_free(c)

SpecErrors == InitErrors /\ [][NextErrors]_vars

(***************************************************************************)
(* Properties of the error words (specification SpecErrors).               *)
(***************************************************************************)
\* The word a call of rwkv_get_last_error addressed, as it was before the call
WordBefore ==
    IF last.c = 0 THEN last.globals[last.t] ELSE last.words[last.c].data

\* C2: rwkv_get_last_error returns the word it addresses and leaves it NONE,
\* so that the second of two calls in succession, of the context form or of
\* the null form, returns NONE whatever the first returned.
C2_ReadAndClear ==
    last.op = "get_last_error" =>
        /\ last.ret = WordBefore
        /\ last.again => last.ret = RWKV_ERROR_NONE
        /\ IF last.c = 0 THEN global_last_error[last.t] = RWKV_ERROR_NONE
           ELSE ctxs[last.c].last_error = RWKV_ERROR_NONE

\* The second of two calls in succession, the first of which returned an error
C2_Witness ==
    /\ last.op = "get_last_error" /\ last.again
    /\ last.first # RWKV_ERROR_NONE
    /\ last.ret = RWKV_ERROR_NONE

\* The words of the contexts that existed before the last call are what
\* they were
CtxWordsKept ==
    \A c \in CtxIds :
        last.words[c] # NULL => ctxs[c] # NULL /\ ctxs[c].last_error = last.words[c].data

\* The global words of the threads other than t are what they were
OtherGlobalsKept(t) ==
    \A u \in Threads \ {t} : global_last_error[u] = last.globals[u]

\* C3: a failing rwkv_eval adds its error to the context's word and leaves
\* every thread's global word as it was; a failing rwkv_init_from_file or
\* rwkv_quantize_model_file adds its error to the calling thread's global
\* word and leaves the word of every existing context as it was;
\* rwkv_get_last_error(ctx) clears the context's word and no global word,
\* and rwkv_get_last_error(NULL) clears the calling thread's global word and
\* no context's word.
C3_SeparateWords ==
    /\ (last.op = "eval" /\ ~last.ret) =>
           /\ global_last_error = last.globals
           /\ ctxs[last.c].last_error = RWKV_ERROR_ARGS
    /\ (last.op \in {"init_from_file", "quantize_model_file"} /\ ~last.ret) =>
           /\ CtxWordsKept
           /\ OtherGlobalsKept(last.t)
           /\ global_last_error[last.t] # RWKV_ERROR_NONE
    /\ (last.op = "get_last_error" /\ last.c # 0) =>
           /\ global_last_error = last.globals
           /\ ctxs[last.c].last_error = RWKV_ERROR_NONE
           /\ \A c \in CtxIds \ {last.c} : ctxs[c] # NULL => CtxWords[c] = last.words[c]
    /\ (last.op = "get_last_error" /\ last.c = 0) =>
           /\ CtxWordsKept
           /\ OtherGlobalsKept(last.t)
           /\ global_last_error[last.t] = RWKV_ERROR_NONE

\* A load fails in thread 2 while a context holds ARGS from a failed
\* evaluation and thread 1 holds the error of a failed call of its own
C3_Witness ==
    /\ last.op = "init_from_file" /\ ~last.ret /\ last.t = 2
    /\ \E c \in CtxIds : last.words[c] = Ref(RWKV_ERROR_ARGS)
                         /\ ctxs[c].last_error = RWKV_ERROR_ARGS
    /\ last.globals[1] # RWKV_ERROR_NONE
    /\ global_last_error[1] = last.globals[1]
    /\ global_last_error[2] # RWKV_ERROR_NONE

(***************************************************************************)
(* Loading: one thread loads files whose header or one of whose tensor     *)
(* records was written with other values, and reads the tensor headers of  *)
(* such files.                                                             *)
(***************************************************************************)
\* The versions tried: those supported, one before and one after
VersionsTried == (RWKV_FILE_VERSION_MIN - 1)..(RWKV_FILE_VERSION_MAX + 1)

\* The type codes tried: every code of the registry, TYPE_COUNT and one more
TypesTried == 0..(TYPE_COUNT + 1)

\* Well-formed but for the magic, the version and the type of the header
HeaderFiles ==
    {[SmallModel EXCEPT !.magic = m, !.version = v, !.data_type = t] :
        m \in {RWKV_FILE_MAGIC, BAD_MAGIC}, v \in VersionsTried, t \in TypesTried}

\* The dimension counts and the type codes written to one record
DimsTried == 0..3
RecordTypesTried == {TYPE_F32, TYPE_Q4_1_O, TYPE_Q4_2, TYPE_Q4_3, TYPE_COUNT, TYPE_COUNT + 1}

\* Well-formed but for the dimension count and the type of record 1
\* (emb.weight, a matrix) or of record 2 (blocks.0.ln0.weight, a vector)
RecordFiles ==
    {[SmallModel EXCEPT !.rec = k, !.rec_dim = dim, !.rec_type = t] :
        k \in 1..2, dim \in DimsTried, t \in RecordTypesTried}

\* Where the loader is after header and k - 1 records of the file
RecordStart(file, k) ==
    Bind([ok |-> TRUE, err |-> RWKV_ERROR_NONE, pos |-> SIZEOF_FILE_HEADER, ffn_key |-> 0,
          done |-> FALSE], LAMBDA s : PlanLoop(file, s, k - 1))

\* fread_tensor_header at the start of record k of the file of d, as the
\* one file the run opens
ReadTensorHeader(d, k) ==
    /\ budget.loads > 0
    /\ \E file \in {FileOf(d)} : \E start \in {RecordStart(file, k)} :
           /\ start.ok
           /\ \E r \in {fread_tensor_header(file, start.pos)} :
                  last' = [op |-> "fread_tensor_header", d |-> d, k |-> k,
                           pos |-> start.pos, ok |-> r.ok, err |-> r.err, after |-> r.pos,
                           header |-> r.val, globals |-> global_last_error,
                           words |-> CtxWords]
    /\ budget' = [budget EXCEPT !.loads = @ - 1]
    /\ UNCHANGED <<ctxs, global_last_error, bufs, output, evlog, decoy, frames>>

InitLoad == InitWith(1, 0, 0, 1)

NextLoad ==
    \/ \E c \in CtxIds, d \in HeaderFiles \cup RecordFiles :
           rwkv_init_from_file(1, c, d, "none", 0)
    \/ \E d \in RecordFiles, k \in 1..2 : ReadTensorHeader(d, k)
    \/ rwkv_get_last_error(1, 0)
    \/ \E c \in CtxIds : rwkv_free(c)

SpecLoad == InitLoad /\ [][NextLoad]_vars

(***************************************************************************)
(* Properties of loading (specification SpecLoad).                         *)
(***************************************************************************)
\* The type codes whose formats were removed, and the quantized ones kept
RemovedTypes == {TYPE_Q4_1_O, TYPE_Q4_2, TYPE_Q4_3}
QuantizedTypes == {TYPE_Q4_0, TYPE_Q4_1, TYPE_Q5_0, TYPE_Q5_1, TYPE_Q8_0}

\* The last call loaded a file whose records are well-formed, and no system
\* call failed
LoadedHeaderFile == last.op = "init_from_file" /\ last.fail = "none" /\ last.d.rec = 0

\* The calling thread's word after the last call
ThreadWord == global_last_error[last.t]

\* C8: rwkv_init_from_file returns NULL with FILE_MAGIC in the thread's word
\* when the magic is wrong; otherwise with FILE_VERSION when the version is
\* outside [MIN, MAX]; otherwise with DATA_TYPE when the type code is
\* TYPE_COUNT or more or that of a removed format.  The kind of the first
\* check that fails and FILE are all that the word holds.
C8_HeaderChecksInOrder ==
    LoadedHeaderFile =>
        IF last.d.magic # RWKV_FILE_MAGIC
        THEN ~last.ret /\ ThreadWord = {"FILE_MAGIC", "FILE"}
        ELSE IF last.d.version < RWKV_FILE_VERSION_MIN
                \/ last.d.version > RWKV_FILE_VERSION_MAX
        THEN ~last.ret /\ ThreadWord = {"FILE_VERSION", "FILE"}
        ELSE IF last.d.data_type >= TYPE_COUNT \/ last.d.data_type \in RemovedTypes
        THEN ~last.ret /\ ThreadWord = {"DATA_TYPE", "FILE"}
        ELSE TRUE

\* A file whose magic, version and type are all wrong was loaded
C8_Witness ==
    /\ LoadedHeaderFile /\ ~last.ret
    /\ last.d.magic = BAD_MAGIC
    /\ last.d.version = RWKV_FILE_VERSION_MAX + 1
    /\ last.d.data_type = TYPE_Q4_2
    /\ ThreadWord = {"FILE_MAGIC", "FILE"}

\* C9: a file of a supported version whose header type is Q4_0, Q4_1, Q5_0,
\* Q5_1 or Q8_0 is rejected with DATA_TYPE exactly when its version is not
\* RWKV_FILE_VERSION_1, and its header is accepted otherwise; a file of type
\* f32 or f16 is accepted at every supported version.
C9_QuantizedVersionRule ==
    (/\ LoadedHeaderFile
     /\ last.d.magic = RWKV_FILE_MAGIC
     /\ last.d.version \in RWKV_FILE_VERSION_MIN..RWKV_FILE_VERSION_MAX) =>
        /\ last.d.data_type \in QuantizedTypes =>
               IF last.d.version # RWKV_FILE_VERSION_1
               THEN ~last.ret /\ ThreadWord = {"DATA_TYPE", "FILE"}
               ELSE last.ret /\ ThreadWord = RWKV_ERROR_NONE
        /\ last.d.data_type \in {TYPE_F32, TYPE_F16} =>
               last.ret /\ ThreadWord = RWKV_ERROR_NONE

\* A Q5_0 file of version RWKV_FILE_VERSION_0 was rejected
C9_Witness ==
    /\ LoadedHeaderFile /\ ~last.ret
    /\ last.d.magic = RWKV_FILE_MAGIC
    /\ last.d.version = RWKV_FILE_VERSION_0
    /\ last.d.data_type = TYPE_Q5_0
    /\ "DATA_TYPE" \in ThreadWord

\* The record of the file of d that the last call read the header of, as it
\* was written: its dimension count, type code and height
WrittenRecord ==
    [dim_count |-> IF last.k = last.d.rec THEN last.d.rec_dim
                   ELSE ModelRecords(last.d.n_vocab, last.d.n_embed, last.d.n_layer,
                                     last.d.ffn)[last.k].dim_count,
     data_type |-> IF last.k = last.d.rec THEN last.d.rec_type
                   ELSE IF ModelRecords(last.d.n_vocab, last.d.n_embed, last.d.n_layer,
                                        last.d.ffn)[last.k].dim_count = 2
                        THEN last.d.data_type ELSE TYPE_F32,
     height |-> ModelRecords(last.d.n_vocab, last.d.n_embed, last.d.n_layer,
                             last.d.ffn)[last.k].height]

\* C10: reading the header of a record whose dim_count is neither 1 nor 2
\* fails with SHAPE, and loading a file with such a record returns NULL with
\* SHAPE in the thread's word; a type code of TYPE_COUNT or more or of a
\* removed format fails with DATA_TYPE; a record of dim_count 1 has height 1
\* and its header ends after four words; a record of dim_count 2 has the
\* height that the fifth word holds.
C10_TensorHeader ==
    /\ last.op = "fread_tensor_header" =>
           \E w \in {WrittenRecord} :
               IF w.dim_count \notin {1, 2}
               THEN ~last.ok /\ last.err = {"SHAPE"}
               ELSE IF w.data_type >= TYPE_COUNT \/ w.data_type \in RemovedTypes
               THEN ~last.ok /\ last.err = {"DATA_TYPE"}
               ELSE IF w.dim_count = 1
               THEN /\ last.ok /\ last.header.height = 1
                    /\ last.after = last.pos + 4 * SIZEOF_U32
               ELSE /\ last.ok /\ last.header.height = w.height
                    /\ last.after = last.pos + 5 * SIZEOF_U32
    /\ (/\ last.op = "init_from_file" /\ last.fail = "none"
        /\ last.d.rec # 0 /\ last.d.rec_dim \notin {1, 2}) =>
           ~last.ret /\ "SHAPE" \in ThreadWord

\* A file whose first record has dim_count 3 and a type code out of range
\* was loaded
C10_Witness ==
    /\ last.op = "init_from_file" /\ last.fail = "none" /\ ~last.ret
    /\ last.d.rec = 1 /\ last.d.rec_dim = 3 /\ last.d.rec_type = TYPE_COUNT
    /\ ThreadWord = {"SHAPE", "MODEL_PARAMS"}

(***************************************************************************)
(* Element counts: the getters and the extents of rwkv_eval on contexts of *)
(* small and of very large models, of which only the header is kept.       *)
(***************************************************************************)
\* A layer count and an embedding width whose product with 5 is 2^32 or more
BigLayer == 13108
BigEmbed == 65536

CountHeaders ==
    {[n_vocab |-> v, n_embed |-> e, n_layer |-> l] :
        v \in 1..(MaxVocab + 1), e \in {1, MaxEmbed, BigEmbed},
        l \in {1, MaxLayer, BigLayer, BigLayer + 1}}

\* A context was loaded from a valid file of one of the headers
InitCounts ==
    /\ ctxs = [c \in CtxIds |-> NULL]
    /\ global_last_error = [t \in Threads |-> RWKV_ERROR_NONE]
    /\ bufs = [c \in CtxIds |-> NULL]
    /\ output = NoFile
    /\ evlog = [c \in CtxIds |-> NULL]
    /\ budget = [loads |-> 0, evals |-> 0, quantizes |-> 0, reads |-> 0]
    /\ decoy = DecoyInit
    /\ frames = [t \in Threads |-> NoFrame]
    /\ \E header \in CountHeaders : last = [op |-> "loaded", header |-> header]

\* rwkv_get_state_buffer_element_count on the context
GetStateBufferElementCount ==
    /\ last.op # "get_state_buffer_element_count"
    /\ last' = [op |-> "get_state_buffer_element_count", header |-> last.header,
                ret |-> rwkv_get_state_buffer_element_count(last.header)]
    /\ UNCHANGED <<ctxs, global_last_error, bufs, output, evlog, budget, decoy, frames>>

\* rwkv_get_logits_buffer_element_count on the context
GetLogitsBufferElementCount ==
    /\ last.op # "get_logits_buffer_element_count"
    /\ last' = [op |-> "get_logits_buffer_element_count", header |-> last.header,
                ret |-> rwkv_get_logits_buffer_element_count(last.header)]
    /\ UNCHANGED <<ctxs, global_last_error, bufs, output, evlog, budget, decoy, frames>>

\* An accepted rwkv_eval on the context, by the numbers of elements it
\* reads from state_in and writes to state_out and to logits_out
EvalExtents ==
    /\ last.op # "eval_extents"
    /\ last' = [op |-> "eval_extents", header |-> last.header,
                read |-> InputStateElements(last.header),
                written |-> StateOutExtent(last.header),
                logits |-> LogitsExtent(last.header)]
    /\ UNCHANGED <<ctxs, global_last_error, bufs, output, evlog, budget, decoy, frames>>

NextCounts ==
    \/ GetStateBufferElementCount
    \/ GetLogitsBufferElementCount
    \/ EvalExtents

SpecCounts == InitCounts /\ [][NextCounts]_vars

(***************************************************************************)
(* Properties of the element counts (specification SpecCounts).            *)
(***************************************************************************)
\* n_layer * 5 * n_embed and n_vocab of a header as mathematical integers
MathStateCount(header) == WMul(WMul(Wide(header.n_layer), 5), header.n_embed)
MathLogitsCount(header) == Wide(header.n_vocab)

\* x <= y
WLeq(x, y) == x.hi < y.hi \/ (x.hi = y.hi /\ x.lo <= y.lo)

\* C7: rwkv_get_state_buffer_element_count returns n_layer * 5 * n_embed as
\* a mathematical integer, which is the number of elements rwkv_eval reads
\* from state_in and writes to state_out; rwkv_get_logits_buffer_element_count
\* returns n_vocab, the number of elements rwkv_eval writes to logits_out;
\* and rwkv_eval writes no more elements than the getters return, also when
\* the product does not fit in 32 bits.
C7_CountsAreExact ==
    /\ last.op = "get_state_buffer_element_count" =>
           last.ret = MathStateCount(last.header)
    /\ last.op = "get_logits_buffer_element_count" =>
           last.ret = MathLogitsCount(last.header)
    /\ last.op = "eval_extents" =>
           /\ last.read = MathStateCount(last.header)
           /\ last.written = MathStateCount(last.header)
           /\ last.logits = MathLogitsCount(last.header)
           /\ WLeq(last.written, rwkv_get_state_buffer_element_count(last.header))
           /\ WLeq(last.logits, rwkv_get_logits_buffer_element_count(last.header))

\* The getter returned less than rwkv_eval writes to state_out
C7_Witness ==
    /\ last.op = "get_state_buffer_element_count"
    /\ last.header.n_layer = BigLayer /\ last.header.n_embed = BigEmbed
    /\ ~WLeq(StateOutExtent(last.header), last.ret)

(***************************************************************************)
(* Loading files that lack a parameter, carry another shape or end early,  *)
(* under every failure of the system, and using the contexts obtained      *)
(* (specification SpecParams).                                             *)
(***************************************************************************)
\* How many records a well-formed model of the description has
RecordCount(d) == Len(KeysBeforeLayers) + d.n_layer * Len(LayerSchedule) + Len(KeysAfterLayers)

\* The two models, whole (drop = 0) and with any one record left out
DropFiles ==
    {[base EXCEPT !.drop = k] : base \in {SmallModel}, k \in 0..RecordCount(SmallModel)}
    \cup {[base EXCEPT !.drop = k] : base \in {DeepModel}, k \in 0..RecordCount(DeepModel)}

\* The deep model with narrower ffn layers after the first, ffn.key.weight
\* and ffn.value.weight agreeing within each layer (a wider layer needs more
\* of the arena than the planner sized it for)
FfnFiles == {[DeepModel EXCEPT !.ffn_rest = w] : w \in 1..DeepModel.ffn}

\* The small model with emb.weight of every small shape, and written with
\* one dimension
EmbFiles ==
    {[SmallModel EXCEPT !.alt = 1, !.alt_w = w, !.alt_h = h] :
        w \in 1..(MaxEmbed + 1), h \in 1..(MaxVocab + 1)}
    \cup {[SmallModel EXCEPT !.rec = 1, !.rec_dim = 1, !.rec_type = TYPE_F32]}

\* The small model with a wrong magic, with a record of three dimensions,
\* and ending early by some bytes
BrokenFiles ==
    {[SmallModel EXCEPT !.magic = BAD_MAGIC],
     [SmallModel EXCEPT !.rec = 2, !.rec_dim = 3, !.rec_type = TYPE_F32]}
    \cup {[SmallModel EXCEPT !.cut = n] : n \in {1, SIZEOF_U32 * MaxEmbed + 1}}

ParamFiles == DropFiles \cup FfnFiles \cup EmbFiles \cup BrokenFiles

InitParams == InitWith(1, 1, 0, 1)

NextParams ==
    \/ \E c \in CtxIds, d \in ParamFiles : rwkv_init_from_file(1, c, d, "none", 0)
    \/ \E c \in CtxIds, d \in {SmallModel, DeepModel}, fail \in LoadFailures :
           rwkv_init_from_file(1, c, d, fail, 0)
    \/ \E c \in CtxIds : CallerAlloc(c, 0)
    \/ \E c \in CtxIds, token \in Tokens, lout \in BOOLEAN : rwkv_eval(c, token, 0, 1, lout)
    \/ \E c \in CtxIds : rwkv_get_last_error(1, c)
    \/ rwkv_get_last_error(1, 0)
    \/ \E c \in CtxIds : rwkv_free(c)

SpecParams == InitParams /\ [][NextParams]_vars

(***************************************************************************)
(* Properties of the parameters of a loaded model (specification           *)
(* SpecParams).                                                            *)
(***************************************************************************)
\* The fields of rwkv_layer that rwkv_set_params binds, in the order of
\* LayerSchedule
LayerSlots ==
    << "ln1_weight", "ln1_bias",
       "att_time_mix_k", "att_time_mix_v", "att_time_mix_r", "att_time_first",
       "att_time_decay", "att_key", "att_value", "att_receptance", "att_output",
       "ln2_weight", "ln2_bias",
       "ffn_time_mix_k", "ffn_time_mix_r", "ffn_key", "ffn_value", "ffn_receptance" >>

\* The slot of the model that the key of record k of the schedule is bound to
SlotOf(model, n_layer, k) ==
    IF k = 1 THEN model.emb
    ELSE IF k = 2 THEN model.ln0_weight
    ELSE IF k = 3 THEN model.ln0_bias
    ELSE IF k = 3 + n_layer * Len(LayerSchedule) + 1 THEN model.ln_out_weight
    ELSE IF k = 3 + n_layer * Len(LayerSchedule) + 2 THEN model.ln_out_bias
    ELSE IF k = 3 + n_layer * Len(LayerSchedule) + 3 THEN model.head
    ELSE model.layers[((k - 4) \div Len(LayerSchedule)) + 1]
                     [LayerSlots[((k - 4) % Len(LayerSchedule)) + 1]]

\* The tensor that record k of the file of d holds
TensorInFile(d, k) ==
    Bind(DescribedRecords(d)[k], LAMBDA rec :
        [n_dims |-> rec.dim_count,
         type |-> type_to_ggml(IF rec.dim_count = 2 THEN d.data_type ELSE TYPE_F32),
         width |-> rec.width, height |-> rec.height,
         data |-> Weights(k, rec.width * rec.height, d.seed)])

\* C11: loading a file that is valid but for one record of the parameter
\* schedule, which it lacks, returns NULL with PARAM_MISSING in the thread's
\* error word, whichever record it is; and in every context that a load
\* returned, every slot of the schedule is bound to the tensor the file
\* holds under the slot's key.
C11_MissingParameter ==
    /\ (last.op = "init_from_file" /\ last.fail = "none" /\ last.d \in DropFiles
        /\ last.d.drop # 0)
           => /\ ~last.ret
              /\ ctxs[last.c] = NULL
              /\ RWKV_ERROR_PARAM_MISSING \subseteq global_last_error[last.t]
    /\ \A c \in CtxIds :
           (ctxs[c] # NULL /\ evlog[c].d.rec = 0) =>
               \A k \in 1..RecordCount(evlog[c].d) :
                   SlotOf(ctxs[c].model, evlog[c].d.n_layer, k) = TensorInFile(evlog[c].d, k)

\* A load of the two-layer model without a record of its second layer
C11_Witness ==
    /\ last.op = "init_from_file" /\ last.fail = "none" /\ ~last.ret
    /\ last.d.n_layer = MaxLayer
    /\ last.d.drop > Len(KeysBeforeLayers) + Len(LayerSchedule)
    /\ last.d.drop <= Len(KeysBeforeLayers) + MaxLayer * Len(LayerSchedule)
    /\ RWKV_ERROR_PARAM_MISSING \subseteq global_last_error[last.t]

\* C12: in every context that a load returned, the ffn width the planner
\* sized the arena for is the height of blocks.0.ffn.key.weight and the
\* height of every layer's ffn.key.weight; a file in which a layer's
\* ffn.key.weight has another height yields no context.
C12_FfnKeyInvariant ==
    /\ \A c \in CtxIds :
           ctxs[c] # NULL =>
               /\ evlog[c].planned = ctxs[c].model.layers[1].ffn_key.height
               /\ \A i \in 1..ctxs[c].model.header.n_layer :
                      ctxs[c].model.layers[i].ffn_key.height = evlog[c].planned
    /\ (last.op = "init_from_file" /\ last.d.n_layer > 1 /\ last.d.ffn_rest # last.d.ffn)
           => ~last.ret

\* A load of the two-layer model whose second layer is narrower than its
\* first has returned a context
C12_Witness ==
    /\ last.op = "init_from_file" /\ last.fail = "none" /\ last.ret
    /\ last.d.n_layer = MaxLayer /\ last.d.ffn_rest < last.d.ffn
    /\ ctxs[last.c] # NULL
    /\ last.planned = ctxs[last.c].model.layers[1].ffn_key.height
    /\ ctxs[last.c].model.layers[MaxLayer].ffn_key.height = last.d.ffn_rest

\* Whether the file of d carries emb.weight with another shape than
\* two dimensions, n_embed wide and n_vocab high
EmbMisshaped(d) ==
    \/ d.rec = 1 /\ d.rec_dim # 2
    \/ d.alt = 1 /\ (d.alt_w # d.n_embed \/ d.alt_h # d.n_vocab)

\* C13: in every context that a load returned, emb.weight has two
\* dimensions, the header's n_embed as its width and the header's n_vocab as
\* its height; a file whose emb.weight has another shape is rejected with
\* SHAPE or DIMENSION and yields no context; and the token of every accepted
\* evaluation is the index of a row of emb.weight.
C13_EmbeddingShape ==
    /\ \A c \in CtxIds :
           ctxs[c] # NULL =>
               /\ ctxs[c].model.emb.n_dims = 2
               /\ ctxs[c].model.emb.width = ctxs[c].model.header.n_embed
               /\ ctxs[c].model.emb.height = ctxs[c].model.header.n_vocab
    /\ (last.op = "init_from_file" /\ last.fail = "none" /\ last.d \in EmbFiles
        /\ EmbMisshaped(last.d))
           => /\ ~last.ret
              /\ ctxs[last.c] = NULL
              /\ \/ RWKV_ERROR_SHAPE \subseteq global_last_error[last.t]
                 \/ RWKV_ERROR_DIMENSION \subseteq global_last_error[last.t]
    /\ (last.op = "eval" /\ last.ret)
           => /\ last.token >= 0
              /\ last.token < ctxs[last.c].model.emb.height

\* A load of a file whose emb.weight is n_embed wide but not n_vocab high,
\* rejected with DIMENSION
C13_Witness ==
    /\ last.op = "init_from_file" /\ last.fail = "none" /\ ~last.ret
    /\ last.d.alt = 1 /\ last.d.alt_w = last.d.n_embed /\ last.d.alt_h # last.d.n_vocab
    /\ RWKV_ERROR_DIMENSION \subseteq global_last_error[last.t]

(***************************************************************************)
(* Properties of the resources of a load (specification SpecParams).       *)
(***************************************************************************)
\* C14: whenever rwkv_init_from_file returns after it opened the file -
\* with a context or, on any failure, with NULL - the FILE it opened has
\* been closed.
C14_FileClosedOnReturn ==
    (last.op = "init_from_file" /\ last.fail # "fopen") =>
        /\ last.file = "closed"
        /\ ~last.ret => ctxs[last.c] = NULL

\* A load that returned a context and left the FILE it opened open
C14_Witness ==
    /\ last.op = "init_from_file" /\ last.fail = "none" /\ last.ret
    /\ ctxs[last.c] # NULL
    /\ last.file = "open"

\* C15: the arena that rwkv_init_from_file creates is released exactly
\* once: by the load itself when the load fails, and otherwise by
\* rwkv_free, together with the scratch buffer; while the context exists,
\* through evaluations and reads of its error word, the arena is live and
\* has never been released.
C15_ArenaReleasedOnce ==
    /\ (last.op = "init_from_file" /\ ~last.ret)
           => \/ last.arena = NULL
              \/ last.arena = ggml_free(ggml_init)
    /\ (last.op = "init_from_file" /\ last.ret) => last.arena = ggml_init
    /\ \A c \in CtxIds :
           ctxs[c] # NULL => ctxs[c].ctx = ggml_init /\ ctxs[c].scratch = "held"
    /\ last.op = "free"
           => /\ last.arena = ggml_free(ggml_init)
              /\ last.scratch = "freed"
              /\ ctxs[last.c] = NULL

\* A context freed after it has served an evaluation
C15_Witness ==
    /\ last.op = "free"
    /\ budget.evals = 0
    /\ last.arena.frees = 1 /\ ~last.arena.live

\* ---------------------------------------------------------------------------
\* The quantizer: rwkv_quantize_model_file over source files of every header
\* type, with one record of another shape or type, and target names that
\* are supported, removed or unknown; then the load of the file it wrote,
\* as tests/test_tiny_rwkv.c does.
\* ---------------------------------------------------------------------------

\* Loading the file at the output path after a call of the quantizer
rwkv_init_from_output(t, c) ==
    /\ budget.loads > 0
    /\ last.op = "quantize_model_file"
    /\ output.exists
    /\ \E file \in {MkFile(output.fields, 0)} : \E r \in {InitFromFile(file, "none", 0)} :
           /\ ctxs[c] = NULL \/ r.ctx = NULL
           /\ ctxs' = IF r.ctx = NULL THEN ctxs ELSE [ctxs EXCEPT ![c] = r.ctx]
           /\ global_last_error' =
                  [global_last_error EXCEPT ![t] = ErrOr(RWKV_ERROR_NONE, r.err)]
           /\ evlog' = IF r.ctx = NULL THEN evlog
                       ELSE [evlog EXCEPT ![c] = [null |-> FALSE, d |-> last.d,
                                                  model |-> r.ctx.model, accepted |-> 0,
                                                  call |-> NULL, planned |-> r.planned]]
           /\ last' = [op |-> "init_from_output", t |-> t, c |-> c, quantized |-> last,
                       ret |-> r.ctx # NULL, globals |-> global_last_error,
                       words |-> CtxWords,
                       header |-> IF r.ctx = NULL THEN NULL ELSE Ref(r.ctx.model.header)]
    /\ budget' = [budget EXCEPT !.loads = @ - 1]
    /\ UNCHANGED <<bufs, output, decoy, frames>>

\* The names of the supported quantized types
SupportedTargets == {"Q4_0", "Q4_1", "Q5_0", "Q5_1", "Q8_0"}

\* The names of the removed types, and names the table does not hold
RemovedTargets == {"Q4_1_O", "Q4_2", "Q4_3"}
UnknownTargets == {"q", "q4_0"}
QuantizeTargets == SupportedTargets \cup RemovedTargets \cup UnknownTargets

\* Source files with one record of another dimension count and type: the
\* embedding, a vector and a matrix of the layer, and the head
RecFiles ==
    {[SmallModel EXCEPT !.rec = k, !.rec_dim = dim, !.rec_type = type] :
        k \in {1, 6, 11, RecordCount(SmallModel)}, dim \in {1, 2},
        type \in {TYPE_F32, TYPE_F16, TYPE_Q4_0}}

\* Source files whose header carries a quantized or a removed type, written
\* by the older and by the latest producer
SourceHeaderFiles ==
    {[SmallModel EXCEPT !.data_type = type, !.version = version] :
        type \in {TYPE_Q4_0, TYPE_Q8_0, TYPE_Q4_1_O, TYPE_Q4_2},
        version \in {RWKV_FILE_VERSION_0, RWKV_FILE_VERSION_1}}

\* Source files that end inside the payload and inside the key of the last
\* record, and one holding a record of a removed type
CutFiles ==
    {[SmallModel EXCEPT !.cut = 1],
     [SmallModel EXCEPT !.cut = tensor_bytes("GGML_TYPE_F32", MaxEmbed, MaxVocab) + 1],
     [SmallModel EXCEPT !.rec = 11, !.rec_dim = 2, !.rec_type = TYPE_Q4_2]}

QuantizeSources ==
    {SmallModel, DeepModel} \cup CutFiles \cup RecFiles \cup SourceHeaderFiles

\* One call of the quantizer with any source and target, then at most
\* MaxQuantizes more over the file the first one left at the output path
InitQuantize == InitWith(1, 0, MaxQuantizes + 1, 1)

NextQuantize ==
    \/ \E d \in QuantizeSources, target_name \in QuantizeTargets :
           /\ budget.quantizes > MaxQuantizes
           /\ rwkv_quantize_model_file(1, d, target_name, "none", 0)
    \/ \E d \in {SmallModel, DeepModel}, target_name \in {"Q4_0", "Q4_3", "q"},
          fail \in QuantizeFailures \ {"none", "fwrite"} :
           /\ budget.quantizes > MaxQuantizes
           /\ rwkv_quantize_model_file(1, d, target_name, fail, 0)
    \/ \E wfail \in 1..5 :
           /\ budget.quantizes > MaxQuantizes
           /\ rwkv_quantize_model_file(1, SmallModel, "Q5_1", "fwrite", wfail)
    \/ \E target_name \in {"Q8_0", "Q4_2", "q"} :
           /\ budget.quantizes <= MaxQuantizes
           /\ rwkv_quantize_model_file(1, DeepModel, target_name, "none", 0)
    \/ \E c \in CtxIds : rwkv_init_from_output(1, c)
    \/ \E c \in CtxIds : rwkv_get_last_error(1, c)
    \/ rwkv_get_last_error(1, 0)
    \/ \E c \in CtxIds : rwkv_free(c)

SpecQuantize == InitQuantize /\ [][NextQuantize]_vars

\* The records of a file, read field by field: a record's header, its
\* height when it has two dimensions, its key and its payload. ParseSome
\* reads at most n records from field i on and says where it stopped.
RECURSIVE ParseSome(_, _, _)
ParseSome(fields, i, n) ==
    IF n = 0 \/ i > Len(fields) THEN [recs |-> << >>, next |-> i]
    ELSE IF n = 1
    THEN Bind(IF fields[i].val.dim_count = 1 THEN 0 ELSE 1, LAMBDA h :
             IF i + h + 2 > Len(fields) THEN [recs |-> << >>, next |-> Len(fields) + 1]
             ELSE [recs |-> << [dim_count |-> fields[i].val.dim_count,
                                key_length |-> fields[i].val.key_length,
                                data_type |-> fields[i].val.data_type,
                                width |-> fields[i].val.width,
                                height |-> IF h = 1 THEN fields[i + 1].val ELSE 1,
                                key |-> fields[i + h + 1].val,
                                payload |-> fields[i + h + 2]] >>,
                   next |-> i + h + 3])
    ELSE Bind(ParseSome(fields, i, n \div 2), LAMBDA left :
         Bind(ParseSome(fields, left.next, n - (n \div 2)), LAMBDA right :
             [recs |-> left.recs \o right.recs, next |-> right.next]))

ParseRecords(fields, i) == ParseSome(fields, i, Len(fields)).recs

QuantizeDone == last.op = "quantize_model_file" /\ last.ret

\* The records of the source of the last call and of the file at the
\* output path
SourceRecords == ParseRecords(FileOf(last.d).fields, 2)
OutputRecords == ParseRecords(output.fields, 2)

\* The quantized payload of a source record
QuantizedPayload(rec, target_name) ==
    ggml_quantize_chunk(type_to_ggml(type_from_string(target_name)),
                        IF rec.data_type = TYPE_F16 THEN ggml_fp16_to_fp32_row(rec.payload.val)
                        ELSE rec.payload.val)

\* C16: after a successful call of the quantizer, a record of the output
\* carries the target type and the quantized payload exactly when the source
\* record has two dimensions, a key other than emb.weight and head.weight,
\* and the type f32 or f16; every other record carries its original type
\* code and its original payload.
C16_SelectionPolicy ==
    QuantizeDone =>
        \E srcs \in {SourceRecords} : \E outs \in {OutputRecords} :
            /\ Len(outs) = Len(srcs)
            /\ \A k \in 1..Len(srcs) :
                   IF /\ srcs[k].dim_count = 2
                      /\ srcs[k].key \notin {"emb.weight", "head.weight"}
                      /\ srcs[k].data_type \in {TYPE_F32, TYPE_F16}
                   THEN /\ outs[k].data_type = type_from_string(last.target_name)
                        /\ outs[k].payload.val = QuantizedPayload(srcs[k], last.target_name)
                   ELSE /\ outs[k].data_type = srcs[k].data_type
                        /\ outs[k].payload = srcs[k].payload

\* A successful call over a source holding a converted matrix, a matrix of a
\* quantized type and the two matrices kept in the source precision
C16_Witness ==
    /\ QuantizeDone
    /\ last.d.rec = 11 /\ last.d.rec_dim = 2 /\ last.d.rec_type = TYPE_Q4_0
    /\ \E srcs \in {SourceRecords} : \E outs \in {OutputRecords} :
           /\ \E k \in 1..Len(outs) :
                  /\ outs[k].key = "blocks.0.att.value.weight"
                  /\ outs[k].data_type = TYPE_Q5_1
                  /\ outs[k].payload.val # srcs[k].payload.val
           /\ outs[11].data_type = TYPE_Q4_0
           /\ outs[1].key = "emb.weight" /\ outs[1].data_type = TYPE_F32

\* C17: after a successful call of the quantizer the header of the output is
\* that of the input with the latest format version and the target type,
\* and it is followed by one record per record of the input, in the same
\* order, with the same key, key length, dimension count, width and height,
\* and a payload as long as the written record header says.
C17_OutputStructure ==
    QuantizeDone =>
        \E src \in {FileOf(last.d).fields} : \E out \in {output.fields} :
            /\ out[1].len = SIZEOF_FILE_HEADER
            /\ out[1].val = [magic |-> src[1].val.magic,
                             version |-> RWKV_FILE_VERSION_MAX,
                             n_vocab |-> src[1].val.n_vocab,
                             n_embed |-> src[1].val.n_embed,
                             n_layer |-> src[1].val.n_layer,
                             data_type |-> type_from_string(last.target_name)]
            /\ \E srcs \in {ParseRecords(src, 2)} : \E outs \in {ParseRecords(out, 2)} :
                   /\ Len(outs) = Len(srcs)
                   /\ \A k \in 1..Len(srcs) :
                          /\ outs[k].key = srcs[k].key
                          /\ outs[k].key_length = srcs[k].key_length
                          /\ outs[k].dim_count = srcs[k].dim_count
                          /\ outs[k].width = srcs[k].width
                          /\ outs[k].height = srcs[k].height
                          /\ outs[k].payload.len = tensor_bytes_of(outs[k])
                   /\ Len(out) = 1 + SumLen(Vec([k \in 1..Len(srcs) |->
                                                   [len |-> 2 + srcs[k].dim_count]]),
                                            1, Len(srcs))

\* A successful call over a source of the older version holding a vector
\* written with two dimensions
C17_Witness ==
    /\ QuantizeDone
    /\ last.d.version = RWKV_FILE_VERSION_0
    /\ last.d.rec = 6 /\ last.d.rec_dim = 2
    /\ last.target_name = "Q8_0"
    /\ output.fields[1].val.version = RWKV_FILE_VERSION_1
    /\ output.fields[1].val.data_type = TYPE_Q8_0

C19_SourceValidation ==
    (/\ last.op = "quantize_model_file"
     /\ last.target_name \in SupportedTargets
     /\ last.fail = "none"
     /\ last.d.data_type \notin {TYPE_F32, TYPE_F16})
    => /\ ~last.ret
       /\ output = Written(<< >>)
       /\ global_last_error[last.t] = RWKV_ERROR_FILE

\* A call whose input carries a removed type in its header is rejected while
\* the header is read, with the kind of the data-type verification
C19_Witness ==
    /\ last.op = "quantize_model_file"
    /\ last.target_name = "Q4_0"
    /\ last.fail = "none"
    /\ last.d.data_type = TYPE_Q4_1_O
    /\ ~last.ret
    /\ output = Written(<< >>)
    /\ global_last_error[last.t] = ErrOr(RWKV_ERROR_FILE, RWKV_ERROR_DATA_TYPE)

\* A call of the quantizer on an f32 or f16 file the loader accepts, with a
\* supported target and no system call failing
RoundTripCall(call) ==
    /\ call.op = "quantize_model_file"
    /\ call.fail = "none" /\ call.wfail = 0
    /\ call.target_name \in SupportedTargets
    /\ call.d.data_type \in {TYPE_F32, TYPE_F16}
    /\ InitFromFile(FileOf(call.d), "none", 0).ctx # NULL

C26_RejectedEvalFrame ==
    [][(budget'.evals < budget.evals /\ ~last'.ret) =>
           /\ \A c \in CtxIds :
                  /\ ctxs'[c].graph = ctxs[c].graph
                  /\ ctxs'[c].model = ctxs[c].model
                  /\ ctxs'[c].ctx = ctxs[c].ctx
                  /\ ctxs'[c].scratch = ctxs[c].scratch
           /\ ctxs'[last'.c].last_error = RWKV_ERROR_ARGS
           /\ bufs' = bufs
           /\ global_last_error' = global_last_error
           /\ output' = output]_vars

\* An evaluation rejected for its token, with a state_out given, on a
\* context whose graph holds the token and the tensors of an accepted one
C26_Witness ==
    /\ last.op = "eval" /\ ~last.ret
    /\ last.state_out # 0 /\ last.logits_out
    /\ evlog[last.c].accepted >= 1
    /\ ctxs[last.c].graph.token_index # last.token
    /\ ctxs[last.c].last_error = RWKV_ERROR_ARGS

\* C25: when the quantizer returns, on success and on every failure, each
\* file the call opened - the input, and the output when it was opened -
\* has been closed.
C25_QuantizeFilesClosed ==
    last.op = "quantize_model_file" =>
        /\ DOMAIN last.handles = last.opened
        /\ \A p \in last.opened : last.handles[p] = "closed"
        /\ (last.ret \/ last.fail = "fwrite") => last.opened = {"input", "output"}
        /\ last.fail = "fopen_output" /\ last.target_name \in SupportedTargets
               => last.opened = {"input"}

\* A call that fails on a write to the output with both files open
C25_Witness ==
    /\ last.op = "quantize_model_file"
    /\ last.fail = "fwrite" /\ ~last.ret
    /\ RWKV_ERROR_FILE_WRITE \subseteq global_last_error[last.t]
    /\ last.opened = {"input", "output"}
    /\ last.handles["input"] = "closed" /\ last.handles["output"] = "closed"

\* Every element of a is at most 0, and of each pair of elements of a and b
\* one is 0
AtMostZero(a) == \A i \in 1..Len(a) : a[i] <= 0
OneIsZero(a, b) == \A i \in 1..Len(a) : a[i] = 0 \/ b[i] = 0

OtherBuffer(n) == Vec([i \in 1..n |-> FloatMax])

Precedes(trace, a, b) ==
    \A j \in 1..Len(trace) :
        trace[j] = b => \E i \in 1..(j - 1) : trace[i] = a

WideVocab == 300

\* The file a thread loads: the small f32 model for the first thread, an f16
\* model of the wide vocabulary for the others
ThreadFile(t) ==
    IF t = 1 THEN SmallModel
    ELSE Model(WideVocab, MaxEmbed, 1, TYPE_F16, RWKV_FILE_VERSION_0)

\* rwkv_init_from_file returns r to thread t: the context or NULL, and the
\* kinds its checks or-ed into the thread's error word.
LoadReturn(t, d, junk, r) ==
    /\ ctxs' = IF r.ctx = NULL THEN ctxs ELSE [ctxs EXCEPT ![t] = r.ctx]
    /\ global_last_error' = [global_last_error EXCEPT ![t] = ErrOr(RWKV_ERROR_NONE, r.err)]
    /\ evlog' = IF r.ctx = NULL THEN evlog
                ELSE [evlog EXCEPT ![t] = [null |-> FALSE, d |-> d, model |-> r.ctx.model,
                                           accepted |-> 0, call |-> NULL,
                                           planned |-> r.planned]]
    /\ last' = [op |-> "init_from_file", t |-> t, c |-> t, d |-> d, fail |-> "none",
                ret |-> r.ctx # NULL, globals |-> global_last_error, words |-> CtxWords,
                planned |-> r.planned, file |-> r.file, arena |-> r.arena,
                phases |-> r.phases]
    /\ frames' = [frames EXCEPT ![t] = [pc |-> "returned", d |-> d, junk |-> junk,
                                        ret |-> r.ctx, err |-> r.err]]

\* Thread t calls rwkv_init_from_file: fopen, fstat and the file header
rwkv_init_from_file_enter(t, d) ==
    /\ budget.loads > 0
    /\ frames[t].pc = "idle"
    /\ ctxs[t] = NULL
    /\ budget' = [budget EXCEPT !.loads = @ - 1]
    /\ \E file \in {FileOf(d)} : \E h \in {fread_file_header(file, 0, TRUE)} :
           IF ~h.ok
           THEN /\ LoadReturn(t, d, 0, InitFromFile(file, "none", 0))
                /\ UNCHANGED <<bufs, output, decoy>>
           ELSE /\ frames' = [frames EXCEPT ![t] = [pc |-> "plan", d |-> d, pos |-> h.pos,
                                                    ffn_key |-> 0]]
                /\ UNCHANGED <<ctxs, global_last_error, bufs, output, evlog, last, decoy>>

\* The loop test of the planning loop and, when it passes, the record's
\* header and key and the first store of tensor_bytes, decoy.type; when it
\* fails, or a read does, the rest of the call, which returns.
PlanTurn(t) ==
    /\ frames[t].pc = "plan"
    /\ \E f \in {frames[t]} : \E file \in {FileOf(f.d)} :
       \E h \in {fread_file_header(file, 0, TRUE)} :
           IF ~(f.pos < file.size)
           THEN /\ \E junk \in JunkVals :
                       LoadReturn(t, f.d, junk,
                                  LoadAfterPlan(file, h,
                                                [ok |-> TRUE, err |-> RWKV_ERROR_NONE,
                                                 pos |-> f.pos, ffn_key |-> f.ffn_key,
                                                 done |-> TRUE],
                                                "none", junk))
                /\ UNCHANGED <<bufs, output, budget, decoy>>
           ELSE \E r \in {PlanRead(file, f)} :
               IF ~r.ok
               THEN /\ LoadReturn(t, f.d, 0, LoadAfterPlan(file, h, r, "none", 0))
                    /\ UNCHANGED <<bufs, output, budget, decoy>>
               ELSE /\ frames' = [frames EXCEPT ![t] =
                                      [pc |-> "ne0", d |-> f.d, pos |-> r.pos,
                                       ffn_key |-> f.ffn_key, header |-> r.header,
                                       name |-> r.name]]
                    /\ decoy' = [decoy EXCEPT !.type = type_to_ggml(r.header.data_type),
                                              !.writer.type = t]
                    /\ UNCHANGED <<ctxs, global_last_error, bufs, output, evlog, last,
                                   budget>>

\* decoy.ne[0] = width
tensor_bytes_ne0(t) ==
    /\ frames[t].pc = "ne0"
    /\ decoy' = [decoy EXCEPT !.ne0 = frames[t].header.width, !.writer.ne0 = t]
    /\ frames' = [frames EXCEPT ![t].pc = "ne1"]
    /\ UNCHANGED <<ctxs, global_last_error, bufs, output, evlog, last, budget>>

\* decoy.ne[1] = height
tensor_bytes_ne1(t) ==
    /\ frames[t].pc = "ne1"
    /\ decoy' = [decoy EXCEPT !.ne1 = frames[t].header.height, !.writer.ne1 = t]
    /\ frames' = [frames EXCEPT ![t].pc = "nbytes"]
    /\ UNCHANGED <<ctxs, global_last_error, bufs, output, evlog, last, budget>>

\* return ggml_nbytes(&decoy), and the fseek of the planning loop by it.  A
\* seek by another size than the record's that ends inside the file leaves
\* the position off the records' boundaries: the next header would be read
\* from bytes the file model does not describe, and the thread is followed
\* no further.
tensor_bytes_return(t) ==
    /\ frames[t].pc = "nbytes"
    /\ \E f \in {frames[t]} : \E file \in {FileOf(f.d)} :
       \E size \in {ggml_nbytes(decoy.type, decoy.ne0, decoy.ne1)} :
       \E s \in {PlanSkip(file, f, size)} :
           frames' = [frames EXCEPT ![t] =
                          [pc |-> IF size # tensor_bytes_of(f.header) /\ s.pos < file.size
                                  THEN "astray" ELSE "plan",
                           d |-> f.d, pos |-> s.pos, ffn_key |-> s.ffn_key]]
    /\ UNCHANGED <<ctxs, global_last_error, bufs, output, evlog, last, budget, decoy>>

InitThreads ==
    /\ ctxs = [c \in Threads |-> NULL]
    /\ global_last_error = [t \in Threads |-> RWKV_ERROR_NONE]
    /\ bufs = [c \in Threads |-> NULL]
    /\ output = NoFile
    /\ evlog = [c \in Threads |-> NULL]
    /\ last = [op |-> "none"]
    /\ budget = [loads |-> NThreads, evals |-> 0, quantizes |-> 0, reads |-> 1]
    /\ decoy = DecoyInit
    /\ frames = [t \in Threads |-> NoFrame]

NextThreads ==
    \/ \E t \in Threads : rwkv_init_from_file_enter(t, ThreadFile(t))
    \/ \E t \in Threads : PlanTurn(t)
    \/ \E t \in Threads : tensor_bytes_ne0(t)
    \/ \E t \in Threads : tensor_bytes_ne1(t)
    \/ \E t \in Threads : tensor_bytes_return(t)
    \/ \E t \in Threads : frames[t].pc = "returned" /\ rwkv_get_last_error(t, 0)
    \/ \E t \in Threads : frames[t].pc = "returned" /\ rwkv_free(t)

SpecThreads == InitThreads /\ [][NextThreads]_vars

\* What the load of thread t returns when no other thread runs
LoadAlone(t) == InitFromFile(FileOf(frames[t].d), "none", frames[t].junk)

\* C21: each thread's load returns what it returns when the thread runs
\* alone, the context (or NULL) and the error word, under every interleaving
\* of the threads' steps, and no thread reads a field of a static that
\* another thread stored.
C21_Independence ==
    \A t \in Threads :
        /\ frames[t].pc = "returned" =>
               \E alone \in {LoadAlone(t)} :
                   /\ frames[t].ret = alone.ctx
                   /\ frames[t].err = alone.err
        /\ frames[t].pc = "nbytes" =>
               decoy.writer = [type |-> t, ne0 |-> t, ne1 |-> t]

\* A thread whose load returned NULL on a file it loads when it runs alone
C21_Witness ==
    \E t \in Threads :
        /\ frames[t].pc = "returned"
        /\ frames[t].ret = NULL
        /\ LoadAlone(t).ctx # NULL
====
